---- MODULE Spec2Model ----
(***************************************************************************)
(* Bundling API (rei-naissance/Huggle-Bundler): bundle signatures, pricing, *)
(* the bundle repository behind POST /bundles/save, and the heuristic       *)
(* recommender.                                                             *)
(*                                                                          *)
(* Encoding of Python values                                                *)
(*   str      a sequence of one-character strings (<<"a","b">> is "ab")     *)
(*   None     the record None                                               *)
(*   float    an IEEE-754 binary64: zero, or a 53-bit mantissa m (a natural *)
(*            number in limbs) with exponent e, value m * 2^(e - 52)        *)
(*   Decimal  whole cents plus the sign of a remainder far below 1e-4 cent  *)
(***************************************************************************)
EXTENDS Integers, Sequences, FiniteSets, TLC

VARIABLES
    bundles,    \* the rows of table "bundles"
    req,        \* the HTTP requests being handled, one per handler slot
    calls,      \* number of requests accepted so far
    input,      \* arguments of the function under evaluation
    output      \* its results

vars == <<bundles, req, calls, input, output>>

(***************************************************************************)
(* Bounds                                                                   *)
(***************************************************************************)
MaxSigLen == 3          \* product lists handed to the signature functions
MaxPriced == 6          \* products handed to the pricing calculator
MaxProducts == 2        \* products of a /save payload
MaxCalls == 2           \* requests accepted by the API
MaxCatalog == 3         \* rows of the inventory read by the recommender
MaxNumBundles == 2      \* largest num_bundles requested
MaxDefs == 2            \* bundle definitions in one LLM answer

None == [none |-> TRUE]

Min(a, b) == IF a <= b THEN a ELSE b
Max(a, b) == IF a >= b THEN a ELSE b

RECURSIVE Pow2(_)
Pow2(k) == IF k = 0 THEN 1 ELSE 2 * Pow2(k - 1)

(***************************************************************************)
(* Natural numbers beyond the machine word: little-endian sequences of      *)
(* limbs in 0..Base-1 without high zero limbs; <<>> is 0.                   *)
(***************************************************************************)
LimbBits == 15
Base == Pow2(LimbBits)

RECURSIVE BigNorm(_)
BigNorm(x) ==
    IF x = <<>> THEN <<>>
    ELSE IF x[Len(x)] = 0 THEN BigNorm(SubSeq(x, 1, Len(x) - 1))
    ELSE x

\* n >= 0 as limbs
RECURSIVE BigOfInt(_)
BigOfInt(n) == IF n = 0 THEN <<>> ELSE <<n % Base>> \o BigOfInt(n \div Base)

\* limbs that fit an integer, as that integer
RECURSIVE BigToInt(_)
BigToInt(x) == IF x = <<>> THEN 0 ELSE x[1] + Base * BigToInt(Tail(x))

\* x * k + carry for 0 <= k <= Base
RECURSIVE BigMulSmall(_, _, _)
BigMulSmall(x, k, carry) ==
    IF x = <<>> THEN BigOfInt(carry)
    ELSE LET t == x[1] * k + carry
         IN  <<t % Base>> \o BigMulSmall(Tail(x), k, t \div Base)

\* quotient and remainder of x by 1 <= k <= Base, from the top limb down
RECURSIVE BigDivSmall(_, _)
BigDivSmall(x, k) ==
    IF x = <<>> THEN [q |-> <<>>, r |-> 0]
    ELSE LET top == BigDivSmall(Tail(x), k)
             t   == top.r * Base + x[1]
         IN  [q |-> <<t \div k>> \o top.q, r |-> t % k]

RECURSIVE BigAddCarry(_, _, _)
BigAddCarry(x, y, carry) ==
    IF x = <<>> /\ y = <<>> THEN BigOfInt(carry)
    ELSE LET a == IF x = <<>> THEN 0 ELSE x[1]
             b == IF y = <<>> THEN 0 ELSE y[1]
             t == a + b + carry
         IN  <<t % Base>> \o BigAddCarry(IF x = <<>> THEN <<>> ELSE Tail(x),
                                         IF y = <<>> THEN <<>> ELSE Tail(y),
                                         t \div Base)
BigAdd(x, y) == BigAddCarry(x, y, 0)

\* -1, 0, 1 as x < y, x = y, x > y
BigCmp(x, y) ==
    IF Len(x) < Len(y) THEN -1
    ELSE IF Len(x) > Len(y) THEN 1
    ELSE LET differ == {i \in 1..Len(x) : x[i] # y[i]}
         IN  IF differ = {} THEN 0
             ELSE LET k == CHOOSE i \in differ : \A j \in differ : j <= i
                  IN  IF x[k] < y[k] THEN -1 ELSE 1

\* x * 2^s
BigShiftLeft(x, s) ==
    IF x = <<>> THEN <<>>
    ELSE [i \in 1..(s \div LimbBits) |-> 0] \o BigMulSmall(x, Pow2(s % LimbBits), 0)

\* floor(x / 2^s), and whether a 1 bit was shifted out
BigShiftRight(x, s) ==
    LET drop == Min(s \div LimbBits, Len(x))
        kept == SubSeq(x, drop + 1, Len(x))
        d    == BigDivSmall(kept, Pow2(s % LimbBits))
    IN  [q |-> BigNorm(d.q),
         lost |-> d.r # 0 \/ \E i \in 1..drop : x[i] # 0]

\* number of bits of x (0 for 0)
BigBitLen(x) ==
    IF x = <<>> THEN 0
    ELSE (Len(x) - 1) * LimbBits
         + (CHOOSE k \in 1..LimbBits : Pow2(k - 1) <= x[Len(x)] /\ x[Len(x)] < Pow2(k))

(***************************************************************************)
(* float: IEEE-754 binary64 with round-to-nearest-even.  A non-zero double  *)
(* is m * 2^(e - MantBits + 1) with 2^(MantBits-1) <= m < 2^MantBits.       *)
(***************************************************************************)
MantBits == 53

FZero == [zero |-> TRUE, e |-> 0, m |-> <<>>]

\* The double nearest to x * 2^lsb (x > 0); inexact says that x itself is
\* the floor of the exact value.  Ties go to the even mantissa.
RoundToDouble(x, lsb, inexact) ==
    LET len == BigBitLen(x)
    IN  IF len <= MantBits
        THEN [zero |-> FALSE, e |-> lsb + len - 1,
              m |-> BigShiftLeft(x, MantBits - len)]
        ELSE LET sh     == len - MantBits
                 above  == BigShiftRight(x, sh - 1)
                 guard  == IF above.q = <<>> THEN 0 ELSE above.q[1] % 2
                 kept   == BigShiftRight(above.q, 1).q
                 sticky == inexact \/ above.lost
                 up     == guard = 1 /\ (sticky \/ kept[1] % 2 = 1)
                 inc    == BigAdd(kept, <<1>>)
             IN  IF ~up THEN [zero |-> FALSE, e |-> lsb + len - 1, m |-> kept]
                 ELSE IF BigBitLen(inc) > MantBits
                      THEN [zero |-> FALSE, e |-> lsb + len,
                            m |-> BigShiftRight(inc, 1).q]
                      ELSE [zero |-> FALSE, e |-> lsb + len - 1, m |-> inc]

\* float("d.dd"): the double nearest to n cents, as the JSON/str parser gives
\* it: n * 2^CentScale / 100 rounded.
CentScale == 64
FloatOfCents(n) ==
    IF n = 0 THEN FZero
    ELSE LET d == BigDivSmall(BigShiftLeft(BigOfInt(n), CentScale), 100)
         IN  RoundToDouble(BigNorm(d.q), -CentScale, d.r # 0)

\* x * 10^k
RECURSIVE BigTimesPow10(_, _)
BigTimesPow10(x, k) ==
    IF k = 0 THEN x ELSE BigTimesPow10(BigMulSmall(x, 10, 0), k - 1)

\* float("d.dd") for an amount of cents beyond the machine word
FloatOfBigCents(x) ==
    IF x = <<>> THEN FZero
    ELSE LET d == BigDivSmall(BigShiftLeft(x, CentScale), 100)
         IN  RoundToDouble(BigNorm(d.q), -CentScale, d.r # 0)

\* x + y on non-negative doubles.
FAdd(x, y) ==
    IF x.zero THEN y
    ELSE IF y.zero THEN x
    ELSE LET hi == IF x.e >= y.e THEN x ELSE y
             lo == IF x.e >= y.e THEN y ELSE x
             d  == hi.e - lo.e
         IN  IF d > MantBits + 1 THEN hi
             ELSE RoundToDouble(BigAdd(BigShiftLeft(hi.m, d), lo.m),
                                lo.e - MantBits + 1, FALSE)

\* -1, 0, 1 as x < y, x = y, x > y.
FCmp(x, y) ==
    IF x.zero /\ y.zero THEN 0
    ELSE IF x.zero THEN -1
    ELSE IF y.zero THEN 1
    ELSE IF x.e < y.e THEN -1
    ELSE IF x.e > y.e THEN 1
    ELSE BigCmp(x.m, y.m)

\* The whole number of cents nearest to x (x below 2^24).
NearestCent(x) ==
    IF x.zero THEN 0
    ELSE LET sh  == MantBits - 1 - x.e
             hundredfold == BigMulSmall(x.m, 100, 0)
             half == BigShiftLeft(<<1>>, sh - 1)
         IN  BigToInt(BigShiftRight(BigAdd(hundredfold, half), sh).q)

(***************************************************************************)
(* Decimal                                                                  *)
(***************************************************************************)
\* Decimal(str(x)): str(x) is the shortest decimal that parses back to x, so
\* it is the cent amount itself when x is that amount's double, and otherwise
\* lies strictly on the side of the cent amount on which x lies.
DecimalOfStr(x) ==
    LET n == NearestCent(x)
    IN  [cents |-> n, dev |-> FCmp(x, FloatOfCents(n))]

\* (d * (1 - pct/100)).quantize(Decimal('0.01'), rounding=ROUND_HALF_UP), in cents
QuantizeDiscounted(d, pct) ==
    LET base == d.cents * (100 - pct)
        q    == base \div 100
        r    == base % 100
    IN  IF r > 50 THEN q + 1
        ELSE IF r < 50 THEN q
        ELSE IF d.dev < 0 THEN q ELSE q + 1

\* (a - b).quantize(Decimal('0.01'), rounding=ROUND_HALF_UP), in cents
QuantizeDifference(a, b) == a.cents - b.cents

\* The precision of the default decimal context: quantize raises
\* InvalidOperation when its result needs more digits than this.
DecimalPrec == 28

\* (Decimal(str(x)) * (1 - pct/100)).quantize(Decimal('0.01')) raises
\* InvalidOperation: the discounted amount is 10^DecimalPrec cents or more.
\* Doubles below 2^(MantBits-1) are far under that; from there on x is a whole
\* number and x * (100 - pct) is the discounted amount in cents.
QuantizeInvalid(x, pct) ==
    /\ ~x.zero
    /\ x.e >= MantBits - 1
    /\ BigCmp(BigMulSmall(BigShiftLeft(x.m, x.e - MantBits + 1), 100 - pct, 0),
              BigTimesPow10(<<1>>, DecimalPrec)) >= 0

(***************************************************************************)
(* Python values                                                            *)
(***************************************************************************)
Some(v) == [none |-> FALSE, v |-> v]

\* the outcome of a call: a returned value or a raised exception
Return(v) == [exc |-> "", msg |-> "", value |-> Some(v)]
Raise(e, m) == [exc |-> e, msg |-> m, value |-> None]

\* dict.get(key, default): the stored value when the key is present, even
\* when that value is None
DictGet(d, key, default) == IF key \in DOMAIN d THEN d[key] ELSE default

\* code point of a character
Ord(c) ==
    CASE c = " " -> 32
      [] c = "a" -> 97
      [] c = "b" -> 98
      [] c = "|" -> 124

\* s < t on str: lexicographic by code point, a proper prefix first
RECURSIVE StrLess(_, _)
StrLess(s, t) ==
    IF t = <<>> THEN FALSE
    ELSE IF s = <<>> THEN TRUE
    ELSE IF Ord(Head(s)) < Ord(Head(t)) THEN TRUE
    ELSE IF Ord(Head(s)) > Ord(Head(t)) THEN FALSE
    ELSE StrLess(Tail(s), Tail(t))

\* str.strip(): leading and trailing whitespace removed
RECURSIVE LStrip(_)
LStrip(s) == IF s # <<>> /\ Head(s) = " " THEN LStrip(Tail(s)) ELSE s
RECURSIVE RStrip(_)
RStrip(s) ==
    IF s # <<>> /\ s[Len(s)] = " " THEN RStrip(SubSeq(s, 1, Len(s) - 1)) ELSE s
Strip(s) == RStrip(LStrip(s))

\* a list left in the order submitted
Unsorted(xs) == xs

\* sorted(list of str)
RECURSIVE InsertSorted(_, _)
InsertSorted(x, sorted) ==
    IF sorted = <<>> THEN <<x>>
    ELSE IF StrLess(x, Head(sorted)) THEN <<x>> \o sorted
    ELSE <<Head(sorted)>> \o InsertSorted(x, Tail(sorted))
RECURSIVE Sorted(_)
Sorted(xs) ==
    IF xs = <<>> THEN <<>>
    ELSE InsertSorted(xs[Len(xs)], Sorted(SubSeq(xs, 1, Len(xs) - 1)))

\* sep.join(list of str)
RECURSIVE Join(_, _)
Join(sep, xs) ==
    IF xs = <<>> THEN <<>>
    ELSE IF Len(xs) = 1 THEN xs[1]
    ELSE xs[1] \o sep \o Join(sep, Tail(xs))

\* hashlib.sha256(text.encode('utf-8')).hexdigest(): HexDigestLen hex
\* characters, distinct for distinct texts
HexDigestLen == 64
Sha256Hex(text) == [hex |-> HexDigestLen, sha256 |-> text]

RECURSIVE SelectSeqBy(_, _, _)
SelectSeqBy(xs, i, keep) ==
    IF i > Len(xs) THEN <<>>
    ELSE IF keep[i] THEN <<xs[i]>> \o SelectSeqBy(xs, i + 1, keep)
    ELSE SelectSeqBy(xs, i + 1, keep)

(***************************************************************************)
(* utils/signatures.py                                                      *)
(***************************************************************************)
\* A list entry is [isdict |-> BOOLEAN, d |-> the dict], d a function of keys.
compute_bundle_signature(products) ==
    IF products = <<>>
    THEN Raise("ValueError", "Cannot compute signature for empty product list")
    ELSE LET got  == [i \in 1..Len(products) |->
                        IF products[i].isdict
                        THEN DictGet(products[i].d, "id", None) ELSE None]
             keep == [i \in 1..Len(products) |->
                        products[i].isdict /\ ~got[i].none]
             product_ids == SelectSeqBy([i \in 1..Len(products) |->
                                IF keep[i] THEN got[i].v ELSE <<>>], 1, keep)
         IN  IF product_ids = <<>>
             THEN Raise("ValueError", "No valid product IDs found in product list")
             ELSE LET sorted_ids == Sorted(product_ids)
                      signature_input == Join(<<"|">>, sorted_ids)
                  IN  Return(Sha256Hex(signature_input))

\* product_ids is a list of None / Some(str)
compute_signature_from_id_list(product_ids) ==
    IF product_ids = <<>>
    THEN Raise("ValueError", "Cannot compute signature for empty product ID list")
    ELSE LET keep == [i \in 1..Len(product_ids) |->
                        ~product_ids[i].none /\ Strip(product_ids[i].v) # <<>>]
             valid_ids == SelectSeqBy([i \in 1..Len(product_ids) |->
                              IF keep[i] THEN product_ids[i].v ELSE <<>>], 1, keep)
         IN  IF valid_ids = <<>>
             THEN Raise("ValueError", "No valid product IDs provided")
             ELSE LET sorted_ids == Sorted(valid_ids)
                      signature_input == Join(<<"|">>, sorted_ids)
                  IN  Return(Sha256Hex(signature_input))

(***************************************************************************)
(* services/pricing.py                                                      *)
(* A ProductIn is [id, name, product_type, stock, price]; price is the      *)
(* amount in whole cents whose nearest double is the float p.price.         *)
(***************************************************************************)
DEFAULT_DISCOUNTS == (2 :> 5) @@ (3 :> 10) @@ (4 :> 15) @@ (5 :> 20)

\* product.price: price cents, times 10^exp10 where the product carries an
\* exponent (a JSON number such as 1e30)
PriceOf(p) ==
    IF "exp10" \in DOMAIN p
    THEN FloatOfBigCents(BigTimesPow10(BigOfInt(p.price), p.exp10))
    ELSE FloatOfCents(p.price)

\* the prices of products[1..n] added from the left, starting from 0
RECURSIVE SumPrices(_, _)
SumPrices(products, n) ==
    IF n = 0 THEN FZero
    ELSE FAdd(SumPrices(products, n - 1), PriceOf(products[n]))

\* sum(product.price for product in products)
calculate_total_price(products) == SumPrices(products, Len(products))

calculate_bundle_discount_percentage(products) ==
    LET product_count == Len(products)
    IN  IF product_count < 2 THEN 0
        ELSE IF product_count \in DOMAIN DEFAULT_DISCOUNTS
             THEN DEFAULT_DISCOUNTS[product_count]
        ELSE IF product_count >= 5 THEN DEFAULT_DISCOUNTS[5]
        ELSE 0

calculate_discounted_price(total_price, discount_percentage) ==
    IF discount_percentage <= 0 THEN total_price
    ELSE FloatOfCents(QuantizeDiscounted(DecimalOfStr(total_price),
                                         discount_percentage))

calculate_savings_amount(total_price, discounted_price) ==
    FloatOfCents(QuantizeDifference(DecimalOfStr(total_price),
                                    DecimalOfStr(discounted_price)))

\* Lines 132-139: the dict returned when the computation raised
pricing_failed ==
    [total_price |-> Some(FZero), discount_percentage |-> None,
     discounted_price |-> None, savings_amount |-> None]

\* Lines 106-131 raise: the discounted price cannot be quantized
pricing_raises(total_price, discount_percentage) ==
    discount_percentage > 0 /\ QuantizeInvalid(total_price, discount_percentage)

calculate_bundle_pricing(products) ==
    IF products = <<>>
    THEN [total_price |-> Some(FZero), discount_percentage |-> None,
          discounted_price |-> None, savings_amount |-> None]
    ELSE IF pricing_raises(calculate_total_price(products),
                           calculate_bundle_discount_percentage(products))
    THEN pricing_failed
    ELSE LET total_price == calculate_total_price(products)
             discount_percentage == calculate_bundle_discount_percentage(products)
             discounted_price ==
                 calculate_discounted_price(total_price, discount_percentage)
         IN  [total_price |-> Some(total_price),
              discount_percentage |->
                  IF discount_percentage > 0 THEN Some(discount_percentage) ELSE None,
              discounted_price |->
                  IF discount_percentage > 0 THEN Some(discounted_price) ELSE None,
              savings_amount |->
                  IF discount_percentage > 0
                  THEN Some(calculate_savings_amount(total_price, discounted_price))
                  ELSE None]

(***************************************************************************)
(* models/bundle.py, repositories/bundles.py                                *)
(***************************************************************************)
\* ProductIn.model_dump(mode="json"): the dict stored in the products column
model_dump(p) ==
    [isdict |-> TRUE,
     d |-> IF "exp10" \in DOMAIN p
           THEN [id |-> Some(p.id), stock |-> p.stock, price |-> p.price,
                 exp10 |-> p.exp10]
           ELSE [id |-> Some(p.id), stock |-> p.stock, price |-> p.price]]

\* Numeric(10, 2): the value the column keeps, in cents.  A None handed to a
\* column that has a default is left out of the INSERT, which stores the default.
ColumnDefaultPrice == 0
NumericColumn(value) ==
    IF value.none THEN ColumnDefaultPrice ELSE NearestCent(value.v)

\* a table that accepts every row
unconstrained(table, row) == FALSE

\* UniqueConstraint('store_id', 'signature', name='uq_bundle_store_signature'):
\* the row violates it
uq_bundle_store_signature(table, row) ==
    \E other \in table :
        other.store_id = row.store_id /\ other.signature = row.signature

\* Lines 39-43: the pricing dict mapped to the column names
pricing_info_of(raw_pricing) ==
    [original_price |-> DictGet(raw_pricing, "total_price", Some(FZero)),
     price |-> DictGet(raw_pricing, "discounted_price",
                   DictGet(raw_pricing, "total_price", Some(FZero))),
     total_cost |-> DictGet(raw_pricing, "total_price", Some(FZero))]

\* Lines 54-71: Bundle(...)
BundleObject(data, products_data, signature, pricing_info) ==
    [store_id |-> data.store_id,
     signature |-> signature,
     products |-> products_data,
     stock |-> data.stock,
     price |-> DictGet(pricing_info, "price", Some(FZero)),
     original_price |-> DictGet(pricing_info, "original_price", Some(FZero)),
     total_cost |-> DictGet(pricing_info, "total_cost", Some(FZero))]

\* Lines 26-71: sig is the outcome of compute_bundle_signature(products_data)
create_bundle_signed(data, products_data, sig) ==
    IF sig.exc = "ValueError"
    THEN [outcome |-> Raise("ValueError", "Cannot create bundle"), bundle |-> None]
    ELSE [outcome |-> Return(TRUE),
          bundle |-> Some(BundleObject(data, products_data, sig.value.v,
                         pricing_info_of(calculate_bundle_pricing(data.products))))]

\* Line 23: [p.model_dump(mode="json") for p in data.products]
products_data_of(data) ==
    [i \in 1..Len(data.products) |-> model_dump(data.products[i])]

\* Lines 23-71: signature, pricing and the Bundle object of a create_bundle call.
create_bundle_build(data) ==
    create_bundle_signed(data, products_data_of(data),
                         compute_bundle_signature(products_data_of(data)))

\* The row an INSERT of the Bundle object writes; id stands for the fresh uuid4.
InsertedRow(id, b) ==
    [id |-> id, store_id |-> b.store_id, signature |-> b.signature,
     products |-> b.products, stock |-> b.stock,
     price |-> NumericColumn(b.price),
     original_price |-> NumericColumn(b.original_price),
     total_cost |-> NumericColumn(b.total_cost),
     image_url |-> None]

\* a session left as it is
no_rollback(rollbacks) == rollbacks

\* db.rollback(): the rollbacks of the session so far, one more
rollback(rollbacks) == rollbacks + 1

\* Lines 73-86: db.add, db.commit, db.refresh; on IntegrityError db.rollback and
\* the ValueError.  r is the request, table the rows committed so far.
create_bundle_commit(table, r) ==
    LET row == InsertedRow(Cardinality(table) + 1, r.bundle.v)
    IN  IF uq_bundle_store_signature(table, row)
        THEN [table |-> table,
              r |-> [r EXCEPT !.rollbacks = rollback(@),
                              !.outcome = Raise("ValueError",
                                  "A bundle with the same products already exists in store")]]
        ELSE [table |-> table \cup {row},
              r |-> [r EXCEPT !.outcome = Return(row)]]

(***************************************************************************)
(* routers/bundles.py: POST /bundles/save                                   *)
(***************************************************************************)
\* The status of the response: save_bundle catches nothing and the application
\* registers no exception handler, so an exception leaves as a 500.
save_bundle_status(outcome) == IF outcome.exc = "" THEN 200 ELSE 500

Stores == {"s1", "s2"}
\* the requests handled at the same time
Handlers == {"h1", "h2"}

\* the products a payload is made of
ProductA == [id |-> <<"a">>, stock |-> 2, price |-> 1]
ProductB == [id |-> <<"b">>, stock |-> 1, price |-> 9]
PayloadProducts == {ProductA, ProductB}

SeqsUpTo(S, n) == UNION {[1..k -> S] : k \in 0..n}

RECURSIVE MinStock(_, _)
MinStock(ps, i) ==
    IF i > Len(ps) THEN 0
    ELSE IF i = Len(ps) THEN ps[i].stock
    ELSE Min(ps[i].stock, MinStock(ps, i + 1))

\* the BundleCreate payloads of the model
Payloads ==
    {[store_id |-> s, products |-> ps, stock |-> MinStock(ps, 1)] :
        s \in Stores, ps \in SeqsUpTo(PayloadProducts, MaxProducts)}

\* create_bundle up to the INSERT is a function of the payload alone: its
\* results, tabulated for the payloads of the model.
create_bundle_built == [data \in Payloads |-> create_bundle_build(data)]

IdleRequest ==
    [pc |-> "idle", data |-> None, bundle |-> None,
     outcome |-> Return(FALSE), rollbacks |-> 0, status |-> 0]

\* save_bundle up to the commit: the request is accepted, create_bundle builds
\* the Bundle; a signature failure ends the request here.
save_bundle_begin(h, data) ==
    /\ req[h].pc \in {"idle", "done"}
    /\ calls < MaxCalls
    /\ calls' = calls + 1
    /\ LET built == create_bundle_built[data]
       IN  req' = [req EXCEPT ![h] =
                     [pc |-> IF built.outcome.exc = "" THEN "commit" ELSE "done",
                      data |-> Some(data), bundle |-> built.bundle,
                      outcome |-> built.outcome, rollbacks |-> 0,
                      status |-> IF built.outcome.exc = "" THEN 0
                                 ELSE save_bundle_status(built.outcome)]]
    /\ UNCHANGED <<bundles, input, output>>

\* save_bundle from the commit on: the insert or the conflict, and the response.
save_bundle_commit(h) ==
    /\ req[h].pc = "commit"
    /\ LET c == create_bundle_commit(bundles, req[h])
       IN  /\ bundles' = c.table
           /\ req' = [req EXCEPT ![h] =
                        [c.r EXCEPT !.pc = "done",
                                    !.status = save_bundle_status(c.r.outcome)]]
    /\ UNCHANGED <<calls, input, output>>

Init ==
    /\ bundles = {}
    /\ req = [h \in Handlers |-> IdleRequest]
    /\ calls = 0
    /\ input = [fn |-> "api"]
    /\ output = [done |-> FALSE]

Next ==
    \/ \E h \in Handlers, data \in Payloads : save_bundle_begin(h, data)
    \/ \E h \in Handlers : save_bundle_commit(h)

Spec == Init /\ [][Next]_vars

(***************************************************************************)
(* Properties of create_bundle and POST /bundles/save                      *)
(***************************************************************************)
\* the product ids of a product list, in the order submitted
IdsOf(products) == [i \in 1..Len(products) |-> products[i].id]
\* the product ids of a persisted row, in the order stored
RowIds(row) == [i \in 1..Len(row.products) |-> row.products[i].d.id.v]
SeqRange(xs) == {xs[i] : i \in 1..Len(xs)}
Count(xs, x) == Cardinality({i \in 1..Len(xs) : xs[i] = x})
IsPermutation(xs, ys) ==
    /\ Len(xs) = Len(ys)
    /\ \A x \in SeqRange(xs) \cup SeqRange(ys) : Count(xs, x) = Count(ys, x)

IsConflict(outcome) ==
    /\ outcome.exc = "ValueError"
    /\ outcome.msg = "A bundle with the same products already exists in store"
IsInvalidInput(outcome) ==
    /\ outcome.exc = "ValueError"
    /\ outcome.msg = "Cannot create bundle"
\* handler h finishes its create_bundle call in this step
Finishes(h) == req[h].pc = "commit" /\ req'[h].pc = "done"

\* C1: no two persisted bundles of one store have the same set of product
\* ids, whatever the order or the multiplicity the ids were submitted in.
C1_OneBundlePerIdSet ==
    \A r1, r2 \in bundles :
        (r1.store_id = r2.store_id /\ SeqRange(RowIds(r1)) = SeqRange(RowIds(r2)))
            => r1 = r2

\* C2: a create_bundle call for a store that already holds a bundle whose
\* product list is a reordering of the submitted one fails with the Conflict
\* error; a call whose product list is held by a bundle of another store, and
\* by none of its own store, succeeds and persists the bundle.
C2_ReorderConflicts ==
    [][\A h \in Handlers : Finishes(h) =>
        LET data == req[h].data.v
            same == {row \in bundles : /\ row.store_id = data.store_id
                                       /\ IsPermutation(RowIds(row), IdsOf(data.products))}
            other == {row \in bundles : /\ row.store_id # data.store_id
                                        /\ IsPermutation(RowIds(row), IdsOf(data.products))}
        IN  /\ same # {} => IsConflict(req'[h].outcome)
            /\ (same = {} /\ other # {}) =>
                  /\ req'[h].outcome.exc = ""
                  /\ \E row \in bundles' \ bundles :
                        /\ row.store_id = data.store_id
                        /\ RowIds(row) = IdsOf(data.products)]_vars

\* a call was refused because its store holds the same products in another order
C2_ReorderRefused ==
    \E h \in Handlers :
        /\ req[h].pc = "done"
        /\ IsConflict(req[h].outcome)
        /\ \E row \in bundles :
              /\ row.store_id = req[h].data.v.store_id
              /\ RowIds(row) # IdsOf(req[h].data.v.products)
              /\ IsPermutation(RowIds(row), IdsOf(req[h].data.v.products))

\* C3: a create_bundle call that fails on the (store_id, signature) constraint
\* has rolled the session back exactly once when the error is raised, and
\* leaves the persisted bundles as they were before the call's insert.
C3_RollbackOnConflict ==
    [][\A h \in Handlers :
        (/\ Finishes(h)
         /\ \E row \in bundles : /\ row.store_id = req[h].bundle.v.store_id
                                 /\ row.signature = req[h].bundle.v.signature)
            => /\ IsConflict(req'[h].outcome)
               /\ req'[h].rollbacks = 1
               /\ bundles' = bundles]_vars

\* a call has failed on the constraint and rolled back
C3_ConflictRolledBack ==
    \E h \in Handlers :
        /\ req[h].pc = "done"
        /\ IsConflict(req[h].outcome)
        /\ req[h].rollbacks = 1
        /\ bundles # {}

\* C4: POST /bundles/save answers 409 to a product set its store already
\* holds and 400 to a bundle without valid product ids, never a 5xx.
C4_SaveStatus ==
    \A h \in Handlers :
        req[h].pc = "done" =>
            /\ IsConflict(req[h].outcome) => req[h].status = 409
            /\ IsInvalidInput(req[h].outcome) => req[h].status = 400
            /\ req[h].status < 500

\* C8: every row create_bundle writes has original_price and total_cost equal
\* to the sum of its product prices, and price equal to the calculator's
\* discounted price when a size discount applies, to original_price when none
\* does, as for a one-product bundle.
C8_RowPrices ==
    \A row \in bundles :
        LET ps == [i \in 1..Len(row.products) |-> row.products[i].d]
            pricing == calculate_bundle_pricing(ps)
            total == NearestCent(calculate_total_price(ps))
        IN  /\ row.original_price = total
            /\ row.total_cost = total
            /\ row.price = IF pricing.discounted_price.none THEN row.original_price
                           ELSE NearestCent(pricing.discounted_price.v)

(***************************************************************************)
(* The signature functions on bounded inputs                                *)
(***************************************************************************)
\* the entries a product list is made of: something that is no dict, a dict
\* without 'id', and dicts whose 'id' is None, '', ' ', 'a', 'b'
NonDict == [isdict |-> FALSE, d |-> [nondict |-> TRUE]]
DictWithoutId == [isdict |-> TRUE, d |-> [name |-> <<"a">>]]
DictWithId(id) == [isdict |-> TRUE, d |-> [id |-> id]]
SigIds == {None, Some(<<>>), Some(<<" ">>), Some(<<"a">>), Some(<<"b">>)}
SigEntries == {NonDict, DictWithoutId} \cup {DictWithId(id) : id \in SigIds}

PermutationsOf(n) ==
    {f \in [1..n -> 1..n] : \A i, j \in 1..n : f[i] = f[j] => i = j}
Permuted(xs, f) == [i \in 1..Len(xs) |-> xs[f[i]]]

\* the id an entry carries, None when it carries none
EntryId(e) == IF e.isdict THEN DictGet(e.d, "id", None) ELSE None
EntryIds(products) == [i \in 1..Len(products) |-> EntryId(products[i])]

IsBlank(id) == id.none \/ Strip(id.v) = <<>>

SigInputs ==
    {[fn |-> "signature", products |-> ps, perm |-> f] :
        ps \in SeqsUpTo(SigEntries, MaxSigLen), f \in PermutationsOf(MaxSigLen)}

\* both signature functions, on a product list and on a permutation of it
signature_eval ==
    /\ input.fn = "signature"
    /\ ~output.done
    /\ LET n == Len(input.products)
           f == [i \in 1..n |-> input.perm[i]]
       IN  output' =
             [done |-> TRUE,
              sig |-> compute_bundle_signature(input.products),
              sig_perm |-> compute_bundle_signature(Permuted(input.products, f)),
              from_ids |-> compute_signature_from_id_list(EntryIds(input.products)),
              from_ids_perm |->
                  compute_signature_from_id_list(
                      EntryIds(Permuted(input.products, f)))]
    /\ UNCHANGED <<bundles, req, calls, input>>

InitSig ==
    /\ bundles = {}
    /\ req = [h \in Handlers |-> IdleRequest]
    /\ calls = 0
    /\ input \in {i \in SigInputs :
                    \* perm permutes the positions of the list among themselves
                    /\ \A k \in 1..Len(i.products) : i.perm[k] <= Len(i.products)
                    /\ \A k \in (Len(i.products) + 1)..MaxSigLen : i.perm[k] = k}
    /\ output = [done |-> FALSE]

NextSig == signature_eval

SpecSig == InitSig /\ [][NextSig]_vars

IsDigest(outcome) ==
    /\ outcome.exc = ""
    /\ outcome.value.v.hex = 64

\* C5: each signature function gives a product-id list and every permutation
\* of it the same outcome, and for a non-empty list of product ids that
\* outcome is one 64-character hex digest.
C5_PermutationInvariant ==
    output.done =>
        /\ output.sig = output.sig_perm
        /\ output.from_ids = output.from_ids_perm
        /\ (/\ input.products # <<>>
            /\ \A i \in 1..Len(input.products) :
                  ~IsBlank(EntryId(input.products[i])))
              => /\ IsDigest(output.sig)
                 /\ IsDigest(output.from_ids)

\* a list of product ids and a permutation that changes it were both hashed
C5_PermutedListHashed ==
    /\ output.done
    /\ Len(input.products) >= 2
    /\ \A i \in 1..Len(input.products) : ~IsBlank(EntryId(input.products[i]))
    /\ Permuted(input.products, input.perm) # input.products
    /\ IsDigest(output.sig)
    /\ IsDigest(output.from_ids_perm)

\* C6: compute_bundle_signature raises ValueError for every product list whose
\* entries all have a missing, None or blank id, compute_signature_from_id_list
\* for every id list whose entries are all None or blank; neither returns a
\* digest.
C6_BlankIdsRefused ==
    (/\ output.done
     /\ \A i \in 1..Len(input.products) : IsBlank(EntryId(input.products[i])))
        => /\ output.sig.exc = "ValueError"
           /\ output.from_ids.exc = "ValueError"

(***************************************************************************)
(* The pricing calculator on bounded inputs                                 *)
(***************************************************************************)
\* prices in whole cents: 0.01, 0.09 and 10.00
PricedProducts ==
    {[id |-> <<"a">>, stock |-> 1, price |-> 1],
     [id |-> <<"b">>, stock |-> 1, price |-> 9],
     [id |-> <<"a", "b">>, stock |-> 1, price |-> 1000]}

PricingInputs ==
    {[fn |-> "pricing", products |-> ps] : ps \in SeqsUpTo(PricedProducts, MaxPriced)}

\* the BundlePricingCalculator on a product list
pricing_eval ==
    /\ input.fn = "pricing"
    /\ ~output.done
    /\ output' = [done |-> TRUE,
                  discount |-> calculate_bundle_discount_percentage(input.products),
                  pricing |-> calculate_bundle_pricing(input.products)]
    /\ UNCHANGED <<bundles, req, calls, input>>

InitPricing ==
    /\ bundles = {}
    /\ req = [h \in Handlers |-> IdleRequest]
    /\ calls = 0
    /\ input \in PricingInputs
    /\ output = [done |-> FALSE]

NextPricing == pricing_eval

SpecPricing == InitPricing /\ [][NextPricing]_vars

\* the sum of the prices of products[1..n], in cents
RECURSIVE TotalCents(_, _)
TotalCents(products, n) ==
    IF n = 0 THEN 0 ELSE TotalCents(products, n - 1) + products[n].price

\* cents * (1 - pct/100), rounded half-up to whole cents
HalfUpDiscounted(cents, pct) ==
    LET base == cents * (100 - pct)
    IN  IF base % 100 >= 50 THEN base \div 100 + 1 ELSE base \div 100

\* C7: for prices in whole cents the discount is 0% below 2 products, 5% for
\* 2, 10% for 3, 15% for 4, 20% for 5 or more; a positive discount gives the
\* discounted price total * (1 - discount/100) rounded half-up to 2 decimals
\* and the savings total minus discounted price.
C7_TieredPricing ==
    output.done =>
        LET n == Len(input.products)
            pct == CASE n < 2 -> 0 [] n = 2 -> 5 [] n = 3 -> 10 [] n = 4 -> 15
                     [] OTHER -> 20
            total == TotalCents(input.products, n)
            discounted == HalfUpDiscounted(total, pct)
        IN  /\ output.discount = pct
            /\ pct > 0 =>
                  /\ output.pricing.discounted_price = Some(FloatOfCents(discounted))
                  /\ output.pricing.savings_amount =
                         Some(FloatOfCents(total - discounted))

(***************************************************************************)
(* schemas/bundle.py, services/recommender.py                               *)
(***************************************************************************)
\* ProductIn(**kwargs): the fields without a default must be given
ProductInRequired == {"id", "name", "stock", "price"}
ProductIn(kwargs) ==
    IF ProductInRequired \subseteq DOMAIN kwargs
    THEN Return(kwargs)
    ELSE Raise("ValidationError", "Field required")

\* datetime(9999, 1, 1): the expiry of a product that has none, as a year
FarFuture == 9999

\* Lines 36-49: one inventory row made a ProductIn
NormalizeRow(p) ==
    ProductIn([id |-> p.id,
               name |-> "Unnamed",
               product_type |-> p.productType,
               expires_on |-> IF p.expiresOn.none THEN FarFuture ELSE p.expiresOn.v,
               stock |-> p.stock,
               tags |-> <<>>])

\* sorted(xs, key=...): stable, on keys that are pairs of integers
KeyLess(a, b) == a[1] < b[1] \/ (a[1] = b[1] /\ a[2] < b[2])
RECURSIVE InsertByKey(_, _)
InsertByKey(x, sorted) ==
    IF sorted = <<>> THEN <<x>>
    ELSE IF KeyLess(x.key, Head(sorted).key) THEN <<x>> \o sorted
    ELSE <<Head(sorted)>> \o InsertByKey(x, Tail(sorted))
RECURSIVE SortedByKey(_)
SortedByKey(xs) ==
    IF xs = <<>> THEN <<>>
    ELSE InsertByKey(xs[Len(xs)], SortedByKey(SubSeq(xs, 1, Len(xs) - 1)))

\* sorted(items, key=lambda x: (x.expires_on or datetime.max, x.stock))
SortedItems(items) ==
    LET s == SortedByKey([i \in 1..Len(items) |->
                 [key |-> <<items[i].expires_on, items[i].stock>>, v |-> items[i]]])
    IN  [i \in 1..Len(s) |-> s[i].v]

\* p.product_type or (p.tags[0] if p.tags else "Misc")
GroupOf(p) ==
    IF ~p.product_type.none THEN p.product_type.v
    ELSE IF p.tags # <<>> THEN p.tags[1] ELSE "Misc"

\* the keys of dict buckets, in the order of their first insertion
RECURSIVE GroupOrder(_)
GroupOrder(products) ==
    IF products = <<>> THEN <<>>
    ELSE LET before == GroupOrder(SubSeq(products, 1, Len(products) - 1))
             g == GroupOf(products[Len(products)])
         IN  IF g \in SeqRange(before) THEN before ELSE Append(before, g)

\* buckets.items() after every bucket is sorted
Buckets(products) ==
    LET order == GroupOrder(products)
    IN  [k \in 1..Len(order) |->
            [group |-> order[k],
             items |-> SortedItems(SelectSeq(products,
                                             LAMBDA p : GroupOf(p) = order[k]))]]

\* sorted(buckets.items(), key=lambda kv: kv[1][0].expires_on or datetime.max)
RankedGroups(buckets) ==
    LET s == SortedByKey([k \in 1..Len(buckets) |->
                 [key |-> <<buckets[k].items[1].expires_on, 0>>, v |-> buckets[k]]])
    IN  [k \in 1..Len(s) |-> s[k].v]

\* xs[:k]
SliceTo(xs, k) ==
    IF k >= 0 THEN SubSeq(xs, 1, Min(k, Len(xs)))
    ELSE SubSeq(xs, 1, Max(Len(xs) + k, 0))

\* repositories/bundles.py: bundle_exists_for_products
bundle_exists_for_products(table, store_id, product_ids) ==
    LET signature == compute_signature_from_id_list(
                         [i \in 1..Len(product_ids) |-> Some(product_ids[i])])
    IN  IF signature.exc = "ValueError" THEN FALSE
        ELSE \E existing \in table :
                /\ existing.store_id = store_id
                /\ existing.signature = signature.value.v

BundleCreate(store_id, name, products) ==
    [store_id |-> store_id, name |-> name, products |-> products,
     stock |-> MinStock(products, 1)]

\* Lines 72-104: one candidate per ranked bucket of two or more items
RECURSIVE BucketLoop(_, _, _, _, _)
BucketLoop(table, store_id, num_bundles, groups, acc) ==
    IF groups = <<>> THEN acc
    ELSE LET items == Head(groups).items
             chosen == IF Len(items) >= 3 THEN SubSeq(items, 1, 3)
                       ELSE IF Len(items) >= 2 THEN SubSeq(items, 1, 2)
                       ELSE SubSeq(items, 1, 1)
         IN  IF Len(chosen) < 2
             THEN BucketLoop(table, store_id, num_bundles, Tail(groups), acc)
             ELSE LET candidate == BundleCreate(store_id, "Essentials Pack", chosen)
                      added ==
                          IF ~bundle_exists_for_products(table, store_id, IdsOf(chosen))
                          THEN Append(acc, candidate) ELSE acc
                  IN  IF Len(added) >= num_bundles THEN added
                      ELSE BucketLoop(table, store_id, num_bundles, Tail(groups), added)

\* Lines 107-132: adjacent pairs of the pool; pool[i], pool[i+1] of the code
\* are pool[i + 1], pool[i + 2] here
RECURSIVE TopUp(_, _, _, _, _, _)
TopUp(table, store_id, num_bundles, pool, i, acc) ==
    IF ~(Len(acc) < num_bundles /\ i + 1 < Len(pool)) THEN acc
    ELSE LET chosen == <<pool[i + 1], pool[i + 2]>>
         IN  IF bundle_exists_for_products(table, store_id, IdsOf(chosen))
             THEN TopUp(table, store_id, num_bundles, pool, i + 2, acc)
             ELSE TopUp(table, store_id, num_bundles, pool, i + 2,
                        Append(acc, BundleCreate(store_id, "Quick Saver Pack", chosen)))

RECURSIVE Flatten(_)
Flatten(buckets) ==
    IF buckets = <<>> THEN <<>> ELSE Head(buckets).items \o Flatten(Tail(buckets))

\* products_raw is what fetch_products_for_store returns: id, name,
\* productType, expiresOn, stock, tags of the store's products
recommend_bundles(table, store_id, num_bundles, products_raw) ==
    LET normalized == [i \in 1..Len(products_raw) |-> NormalizeRow(products_raw[i])]
    IN  IF \E i \in 1..Len(products_raw) : normalized[i].exc # ""
        THEN LET first == CHOOSE i \in 1..Len(products_raw) :
                              /\ normalized[i].exc # ""
                              /\ \A j \in 1..(i - 1) : normalized[j].exc = ""
             IN  normalized[first]
        ELSE LET products == [i \in 1..Len(products_raw) |-> normalized[i].value.v]
             IN  IF products = <<>> THEN Return(<<>>)
                 ELSE LET buckets == Buckets(products)
                          ranked_groups == RankedGroups(buckets)
                          picked == BucketLoop(table, store_id, num_bundles,
                                        SliceTo(ranked_groups,
                                                Max(num_bundles * 2, num_bundles)),
                                        <<>>)
                      IN  IF Len(picked) < num_bundles
                          THEN Return(TopUp(table, store_id, num_bundles,
                                            SortedItems(Flatten(buckets)), 0, picked))
                          ELSE Return(picked)

(***************************************************************************)
(* The recommender on bounded inputs                                        *)
(***************************************************************************)
\* the id of the i-th product of a catalog: "a", "aa", "aaa"
CatalogId(i) == [k \in 1..i |-> "a"]
CatalogRows(i) ==
    {[id |-> CatalogId(i), productType |-> t, expiresOn |-> e, stock |-> st] :
        t \in {None, Some("t1")}, e \in {None, Some(1), Some(2)}, st \in {1, 2}}
Catalogs ==
    UNION {{c \in [1..k -> UNION {CatalogRows(i) : i \in 1..k}] :
               \A i \in 1..k : c[i].id = CatalogId(i)} : k \in 0..MaxCatalog}

\* create_bundle up to the INSERT for a bundle of the first two products
SavedPairBuilt ==
    create_bundle_build(
        [store_id |-> "s1", stock |-> 1,
         products |-> <<[id |-> CatalogId(1), stock |-> 1, price |-> 1],
                        [id |-> CatalogId(2), stock |-> 1, price |-> 9]>>])

\* a bundle of the first two products, saved earlier in store s1
SavedPair == InsertedRow(1, SavedPairBuilt.bundle.v)

\* POST /bundles/recommend: recommend_bundles on the store's inventory
recommend_eval ==
    /\ input.fn = "recommend"
    /\ ~output.done
    /\ output' = [done |-> TRUE,
                  result |-> recommend_bundles(bundles, input.store_id,
                                               input.num_bundles, input.products_raw)]
    /\ UNCHANGED <<bundles, req, calls, input>>

InitRec ==
    /\ bundles \in {{}, {SavedPair}}
    /\ req = [h \in Handlers |-> IdleRequest]
    /\ calls = 0
    /\ input \in {[fn |-> "recommend", store_id |-> "s1", num_bundles |-> n,
                   products_raw |-> c] : n \in 0..MaxNumBundles, c \in Catalogs}
    /\ output = [done |-> FALSE]

NextRec == recommend_eval

SpecRec == InitRec /\ [][NextRec]_vars

\* every product of the catalog is alone in its bucket
SingletonBuckets(products_raw) ==
    \A i, j \in 1..Len(products_raw) :
        products_raw[i].productType = products_raw[j].productType => i = j

\* C9: every candidate recommend_bundles returns has at least 2 products; a
\* catalog whose buckets hold one product each gets its candidates from the
\* adjacent-pair top-up, none of them a single item.
C9_CandidatesHaveTwoProducts ==
    output.done =>
        /\ output.result.exc = "" =>
              \A k \in 1..Len(output.result.value.v) :
                  Len(output.result.value.v[k].products) >= 2
        /\ (/\ SingletonBuckets(input.products_raw)
            /\ Len(input.products_raw) >= 2
            /\ input.num_bundles >= 1
            /\ bundles = {})
              => /\ output.result.exc = ""
                 /\ output.result.value.v # <<>>
                 /\ \A k \in 1..Len(output.result.value.v) :
                       /\ output.result.value.v[k].name = "Quick Saver Pack"
                       /\ Len(output.result.value.v[k].products) = 2

\* C10: recommend_bundles returns a list of at most num_bundles candidates.
C10_AtMostNumBundles ==
    output.done =>
        /\ output.result.exc = ""
        /\ Len(output.result.value.v) <= input.num_bundles

(***************************************************************************)
(* services/ai.py                                                           *)
(* The answer of an LLM provider to one call is a record                    *)
(*   kind  "unconfigured"      no API key (or no model) is set              *)
(*         "request_error"     network error, timeout or non-2xx status     *)
(*         "malformed"         the content holds no JSON                    *)
(*         "empty_json"        the content is JSON of a falsy value that is *)
(*                             no object: [], 0, null, false, ""            *)
(*         "unexpected_shape"  the content is JSON of a truthy value that   *)
(*                             is no object: [1, 2], "text", 7              *)
(*         "ok"                the content is a JSON object                 *)
(*   name, description   of an "ok" answer to the naming prompt (Some/None) *)
(*   bundles             of an "ok" answer to the bundling prompt: a list   *)
(*                       of [isdict, product_ids]                           *)
(***************************************************************************)
\* _groq_generate / _openrouter_generate: None or a (name, description) pair
provider_generate(resp) ==
    IF resp.kind # "ok" THEN None
    ELSE LET name == IF resp.name.none THEN <<>> ELSE Strip(resp.name.v)
             desc == IF resp.description.none THEN <<>> ELSE Strip(resp.description.v)
         IN  IF name # <<>> /\ desc # <<>> THEN Some(<<name, desc>>) ELSE None

\* maybe_enhance_bundle_text: responses are the answers of the providers in
\* the order they are asked
maybe_enhance_bundle_text(responses) ==
    IF ~provider_generate(responses[1]).none THEN provider_generate(responses[1])
    ELSE IF ~provider_generate(responses[2]).none THEN provider_generate(responses[2])
    ELSE None

\* _groq_generate_bundles / _openrouter_generate_bundles: None or a list
\* Lines 213-216, 254-257: payload = _extract_json_object(content) or {} makes
\* no JSON and falsy JSON the empty dict, whose bundles are []; on a truthy
\* value that is no object payload.get raises, which is caught
provider_generate_bundles(resp) ==
    CASE resp.kind = "ok" -> Some(resp.bundles)
      [] resp.kind = "malformed" -> Some(<<>>)
      [] resp.kind = "empty_json" -> Some(<<>>)
      [] OTHER -> None

\* truthiness of an Optional list
Truthy(x) == ~x.none /\ x.v # <<>>

\* Lines 297-307: the first non-empty bundle list of the providers, else []
bundles_def_of(responses) ==
    IF Truthy(provider_generate_bundles(responses[1]))
    THEN provider_generate_bundles(responses[1]).v
    ELSE IF Truthy(provider_generate_bundles(responses[2]))
    THEN provider_generate_bundles(responses[2]).v
    ELSE <<>>

\* sorted(products_raw, key=expiry_key)
SortedByExpiry(products_raw) ==
    LET s == SortedByKey([i \in 1..Len(products_raw) |->
                 [key |-> <<IF products_raw[i].expiresOn.none THEN FarFuture
                            ELSE products_raw[i].expiresOn.v, 0>>,
                  v |-> products_raw[i]]])
    IN  [i \in 1..Len(s) |-> s[i].v]

\* Lines 331-343 and 382-395: an inventory row made a ProductIn, the price
\* float(pr.get("price") or 0.0) of a row that has no price
to_product_in(pr) ==
    ProductIn([id |-> pr.id,
               name |-> "Unnamed",
               product_type |-> pr.productType,
               expires_on |-> IF pr.expiresOn.none THEN FarFuture ELSE pr.expiresOn.v,
               stock |-> pr.stock,
               tags |-> <<>>,
               price |-> 0]).value.v

\* the products of the ids the catalog knows, whatever their stock
RECURSIVE unfiltered_products_of(_, _)
unfiltered_products_of(products_raw, normalized_ids) ==
    IF normalized_ids = <<>> THEN <<>>
    ELSE LET found == SelectSeq(products_raw, LAMBDA pr : pr.id = Head(normalized_ids))
             rest == unfiltered_products_of(products_raw, Tail(normalized_ids))
         IN  IF found = <<>> THEN rest
             ELSE <<to_product_in(found[Len(found)])>> \o rest

\* Lines 323-343: the products of the ids the catalog knows with stock left
RECURSIVE chosen_products_of(_, _)
chosen_products_of(products_raw, normalized_ids) ==
    IF normalized_ids = <<>> THEN <<>>
    ELSE LET found == SelectSeq(products_raw, LAMBDA pr : pr.id = Head(normalized_ids))
             rest == chosen_products_of(products_raw, Tail(normalized_ids))
         IN  IF found = <<>> THEN rest
             ELSE IF found[Len(found)].stock <= 0 THEN rest
             ELSE <<to_product_in(found[Len(found)])>> \o rest

\* The handler of a request that calls generate_bundles_for_store, between
\* two of its queries of the bundles table.  The handler is a sync def run in
\* the threadpool: it reads the inventory, waits for the providers, then
\* queries the table once per candidate, and other requests commit in between.
\*   pc           "start"   nothing done yet
\*                "defs"    in the loop over bundles_def, before a definition
\*                "topup"   at the head of the top-up loop
\*                "pair"    in the top-up loop, a pair passed the first query
\*                "return"  generate_bundles_for_store has returned results
\*                "raised"  it has raised exc
\*                "images"  the images of the saved bundles are generated
\*                "done"    the endpoint has answered
\*   pool         products_raw sorted by expiry and cut to 200 rows
\*   bundles_def  the definitions not yet looked at
\*   results      the candidates so far
\*   i            the index of the top-up loop
\*   saved        the ids of the rows the endpoint has created
\*   image_results  what generate_images_for_bundles returned
\*   before       the rows of the table when the handler was called
StartedRequest ==
    [pc |-> "start", pool |-> <<>>, bundles_def |-> <<>>, results |-> <<>>,
     i |-> 0, exc |-> "", saved |-> <<>>, image_results |-> <<>>,
     before |-> {}]

\* Lines 263-309: the inventory and the providers' answer
generate_bundles_begin(table, store_id, products_raw, responses) ==
    IF store_id = "" THEN [StartedRequest EXCEPT !.pc = "return", !.before = table]
    ELSE [StartedRequest EXCEPT !.pc = "defs", !.before = table,
                                !.pool = SliceTo(SortedByExpiry(products_raw), 200),
                                !.bundles_def = bundles_def_of(responses)]

\* Lines 357-361: the candidate is kept unless the table holds its products;
\* the loop is left once num_bundles candidates are kept
definition_added(num_bundles, r, added) ==
    IF Len(added) >= num_bundles
    THEN [r EXCEPT !.results = added, !.pc = "topup"]
    ELSE [r EXCEPT !.results = added, !.bundles_def = Tail(@)]

\* Lines 344-359: a definition of fewer than 2 usable products is skipped,
\* another one is checked against the table
definition_chosen(table, store_id, num_bundles, r, chosen_products) ==
    IF Len(chosen_products) < 2 THEN [r EXCEPT !.bundles_def = Tail(@)]
    ELSE definition_added(num_bundles, r,
             IF ~bundle_exists_for_products(table, store_id, IdsOf(chosen_products))
             THEN Append(r.results, BundleCreate(store_id, "AI", chosen_products))
             ELSE r.results)

\* Lines 311-361: one pass of the loop over bundles_def; b.get on a
\* definition that is no dict raises AttributeError
definition_step(table, store_id, num_bundles, r) ==
    IF r.bundles_def = <<>> THEN [r EXCEPT !.pc = "topup"]
    ELSE IF ~Head(r.bundles_def).isdict
    THEN [r EXCEPT !.pc = "raised", !.exc = "AttributeError"]
    ELSE definition_chosen(table, store_id, num_bundles, r,
             chosen_products_of(r.pool, Head(r.bundles_def).product_ids))

\* Lines 364-381: one pass of the top-up loop up to its first query of the
\* table; pool_sorted[i], pool_sorted[i+1] of the code are pool[i + 1],
\* pool[i + 2]
pair_step(table, store_id, num_bundles, r) ==
    IF ~(Len(r.results) < num_bundles /\ r.i + 1 < Len(r.pool))
    THEN [r EXCEPT !.pc = "return"]
    ELSE IF r.pool[r.i + 1].stock <= 0 THEN [r EXCEPT !.i = @ + 1]
    ELSE IF r.pool[r.i + 2].stock <= 0 THEN [r EXCEPT !.i = @ + 2]
    ELSE IF bundle_exists_for_products(table, store_id,
                                       <<r.pool[r.i + 1].id, r.pool[r.i + 2].id>>)
    THEN [r EXCEPT !.i = @ + 2]
    ELSE [r EXCEPT !.pc = "pair"]

\* Lines 382-409: the pair is made a candidate and the table queried again
pair_append(table, store_id, r) ==
    IF ~bundle_exists_for_products(table, store_id,
                                   <<r.pool[r.i + 1].id, r.pool[r.i + 2].id>>)
    THEN [r EXCEPT !.pc = "topup", !.i = @ + 2,
                   !.results = Append(@, BundleCreate(store_id, "Quick Pair Pack",
                                          <<to_product_in(r.pool[r.i + 1]),
                                            to_product_in(r.pool[r.i + 2])>>))]
    ELSE [r EXCEPT !.pc = "topup", !.i = @ + 2]

\* what generate_bundles_for_store hands to its caller
generate_bundles_result(r) ==
    IF r.pc = "raised" THEN Raise(r.exc, "object has no attribute 'get'")
    ELSE Return(r.results)

(***************************************************************************)
(* The recommenders on bounded inputs                                       *)
(***************************************************************************)
FailureKinds ==
    {"unconfigured", "request_error", "malformed", "empty_json", "unexpected_shape"}
Response(kind, name, description, defs) ==
    [kind |-> kind, name |-> name, description |-> description, bundles |-> defs]

\* answers to the naming prompt
Texts == {None, Some(<<>>), Some(<<" ">>), Some(<<"a">>)}
NamingResponses ==
    {Response(k, None, None, <<>>) : k \in FailureKinds}
        \cup {Response("ok", n, d, <<>>) : n \in Texts, d \in Texts}

\* answers to the bundling prompt: definitions that are no dict, and dicts
\* naming the first two products, once or with a repetition
BundleDefs ==
    {[isdict |-> FALSE, product_ids |-> <<>>],
     [isdict |-> TRUE, product_ids |-> <<CatalogId(1), CatalogId(2)>>],
     [isdict |-> TRUE, product_ids |-> <<CatalogId(1), CatalogId(1), CatalogId(2)>>]}
BundlingResponses ==
    {Response(k, None, None, <<>>) : k \in FailureKinds}
        \cup {Response("ok", None, None, defs) : defs \in SeqsUpTo(BundleDefs, MaxDefs)}

\* the second provider is asked only when the first gave no bundle
ResponsePairs ==
    {<<r1, r2>> : r1 \in BundlingResponses, r2 \in BundlingResponses}
AskedResponsePairs ==
    {rs \in ResponsePairs :
        Truthy(provider_generate_bundles(rs[1])) => rs[2].kind = "unconfigured"}

AICatalogRows(i) ==
    {[id |-> CatalogId(i), productType |-> None, expiresOn |-> e, stock |-> st] :
        e \in {None, Some(1)}, st \in {0, 1}}
AICatalogs ==
    UNION {{c \in [1..k -> UNION {AICatalogRows(i) : i \in 1..k}] :
               \A i \in 1..k : c[i].id = CatalogId(i)} : k \in 0..MaxCatalog}

\* the endpoints that call generate_bundles_for_store
GenerateFns == {"generate", "ai_save", "ai_save_images"}

\* requests of other clients that commit while this one is handled
MaxOtherSaves == 1

\* generate_bundles_for_store up to its first query of the bundles table
generate_begin ==
    /\ input.fn \in GenerateFns
    /\ req.pc = "start"
    /\ req' = generate_bundles_begin(bundles, input.store_id, input.products_raw,
                                     input.responses)
    /\ UNCHANGED <<bundles, calls, input, output>>

\* one definition of the providers' answer
generate_definition ==
    /\ input.fn \in GenerateFns
    /\ req.pc = "defs"
    /\ req' = definition_step(bundles, input.store_id, input.num_bundles, req)
    /\ UNCHANGED <<bundles, calls, input, output>>

\* one pass of the top-up loop, up to its first query
generate_pair ==
    /\ input.fn \in GenerateFns
    /\ req.pc = "topup"
    /\ req' = pair_step(bundles, input.store_id, input.num_bundles, req)
    /\ UNCHANGED <<bundles, calls, input, output>>

\* the second query of the pass and the candidate
generate_pair_append ==
    /\ input.fn \in GenerateFns
    /\ req.pc = "pair"
    /\ req' = pair_append(bundles, input.store_id, req)
    /\ UNCHANGED <<bundles, calls, input, output>>

\* POST /bundles/save of another request commits the pair of the first two
\* products while this request is handled
other_save ==
    /\ input.fn \in GenerateFns
    /\ req.pc \notin {"start", "done"}
    /\ calls < MaxOtherSaves
    /\ calls' = calls + 1
    /\ bundles' = create_bundle_commit(bundles,
                      [IdleRequest EXCEPT !.bundle = SavedPairBuilt.bundle]).table
    /\ UNCHANGED <<req, input, output>>

\* POST /bundles/recommend/ai answers with what generate_bundles_for_store
\* returned
generate_eval ==
    /\ input.fn = "generate"
    /\ req.pc \in {"return", "raised"}
    /\ output' = [done |-> TRUE, result |-> generate_bundles_result(req)]
    /\ req' = [req EXCEPT !.pc = "done"]
    /\ UNCHANGED <<bundles, calls, input>>

\* maybe_enhance_bundle_text on the providers' answers
enhance_eval ==
    /\ input.fn = "enhance"
    /\ ~output.done
    /\ output' = [done |-> TRUE, enhanced |-> maybe_enhance_bundle_text(input.responses)]
    /\ UNCHANGED <<bundles, req, calls, input>>

InitGenerate ==
    /\ bundles \in {{}, {SavedPair}}
    /\ input \in {[fn |-> "generate", store_id |-> "s1", num_bundles |-> n,
                   products_raw |-> c, responses |-> rs] :
                     n \in 0..MaxNumBundles, c \in AICatalogs,
                     rs \in AskedResponsePairs}

InitEnhance ==
    /\ bundles = {}
    /\ input \in {[fn |-> "enhance", responses |-> <<r1, r2>>] :
                     r1 \in NamingResponses, r2 \in NamingResponses}

InitAI ==
    /\ req = StartedRequest
    /\ calls = 0
    /\ output = [done |-> FALSE]
    /\ \/ InitGenerate
       \/ InitEnhance
       \/ /\ bundles \in {{}, {SavedPair}}
          /\ input \in {[fn |-> "recommend", store_id |-> "s1", num_bundles |-> n,
                         products_raw |-> c] : n \in 0..MaxNumBundles, c \in Catalogs}

NextAI ==
    \/ generate_begin
    \/ generate_definition
    \/ generate_pair
    \/ generate_pair_append
    \/ other_save
    \/ generate_eval
    \/ enhance_eval
    \/ recommend_eval

SpecAI == InitAI /\ [][NextAI]_vars

\* C11: no candidate recommend_bundles or generate_bundles_for_store returns
\* for a store has the product-id set of a bundle the store held when the
\* function was called.
C11_CandidatesNotBundled ==
    (output.done /\ input.fn \in {"recommend", "generate"} /\ output.result.exc = "") =>
        \A k \in 1..Len(output.result.value.v) :
            \A row \in (IF input.fn = "generate" THEN req.before ELSE bundles) :
                row.store_id = input.store_id =>
                    SeqRange(RowIds(row)) #
                        SeqRange(IdsOf(output.result.value.v[k].products))

\* C12: whatever the providers answer, maybe_enhance_bundle_text returns no
\* value or a pair of non-empty name and description, and
\* generate_bundles_for_store returns a candidate list without raising, made
\* of the pair top-up alone when no provider gave a bundle.
C12_ProviderFailuresSwallowed ==
    output.done =>
        /\ input.fn = "enhance" =>
              \/ output.enhanced.none
              \/ output.enhanced.v[1] # <<>> /\ output.enhanced.v[2] # <<>>
        /\ input.fn = "generate" =>
              /\ output.result.exc = ""
              /\ (\A i \in 1..2 : input.responses[i].kind \in FailureKinds) =>
                    \A k \in 1..Len(output.result.value.v) :
                        output.result.value.v[k].name = "Quick Pair Pack"

\* ---------------------------------------------------------------------
\* services/image_generator.py: batch image generation
\* ---------------------------------------------------------------------

MaxBatch == 3           \* bundles of the store handed to the batch endpoint
MaxConcurrent == 2      \* largest max_concurrent requested

\* limit: int = Query(default=10)
DefaultLimit == 10

\* a URL as the prefix the code tests with startswith, the bundle id the
\* uploader writes into the object key, and the part after the last '/'
ImageUrl(base, bundle_id, filename) ==
    [base |-> base, bundle_id |-> bundle_id, filename |-> filename]

LocalImages == "http://localhost:8001/images/"
TunnelImages == "https://image.huggle.tech/images/"
ProxyImages == "/api/images/generated/"
PublicDomain == "R2_PUBLIC_DOMAIN/bundle-images/"

\* what the diffusion service can answer to one generation: no result, a
\* URL on the local or tunneled host, or a URL elsewhere
ApiResults ==
    {None, Some(ImageUrl(LocalImages, 0, "a.png")),
     Some(ImageUrl(TunnelImages, 0, "b.png")),
     Some(ImageUrl("https://elsewhere/", 0, "c.png"))}

\* what the upload to object storage can do
UploadOutcomes == {"published", "failed", "raised"}

\* generate_bundle_image after the awaited call returned
generate_bundle_image(result) ==
    IF result.none
    THEN Raise("ImageGenerationError", "Local image API returned no image URL")
    ELSE Return(result.v)

\* upload_image_to_r2: the public URL, or no value
upload_image_to_r2(local_image_url, bundle_id, upload) ==
    IF upload = "published"
    THEN Some(ImageUrl(PublicDomain, bundle_id, local_image_url.filename))
    ELSE None

\* upload_bundle_image: the R2 URL, else the original URL; an exception of
\* the upload is caught and gives the original URL as well
upload_bundle_image(local_image_url, bundle_id, upload) ==
    IF upload = "raised"
    THEN Return(local_image_url)
    ELSE LET r2_url == upload_image_to_r2(local_image_url, bundle_id, upload)
         IN  IF ~r2_url.none THEN Return(r2_url.v) ELSE Return(local_image_url)

is_local_url(image_url) ==
    image_url.base = LocalImages \/ image_url.base = TunnelImages

proxy_url(image_url) == ImageUrl(ProxyImages, 0, image_url.filename)

\* r2_url and r2_url != image_url
any_r2_url(r2_url, image_url) == TRUE
upload_succeeded(r2_url, image_url) == r2_url # image_url

\* the URL generate_single_bundle_image returns for a generated image
republished(image_url, bundle_id, upload) ==
    IF is_local_url(image_url)
    THEN LET r == upload_bundle_image(image_url, bundle_id, upload)
         IN  IF r.exc # "" THEN proxy_url(image_url)
             ELSE IF upload_succeeded(r.value.v, image_url) THEN r.value.v
             ELSE proxy_url(image_url)
    ELSE image_url

\* one task of asyncio.gather
PendingTask ==
    [pc |-> "pending", failed |-> FALSE, generated |-> None,
     upload |-> "", result |-> None]

\* generate_single_bundle_image once the awaited generation is over
generate_single_bundle_image(bundle_id, api, upload) ==
    LET g == generate_bundle_image(api)
    IN  IF g.exc # ""
        THEN [pc |-> "done", failed |-> TRUE, generated |-> None,
              upload |-> "", result |-> None]
        ELSE [pc |-> "done", failed |-> FALSE, generated |-> g.value,
              upload |-> IF is_local_url(g.value.v) THEN upload ELSE "",
              result |-> Some(republished(g.value.v, bundle_id, upload))]

\* asyncio.Semaphore
Semaphore(value) == [value |-> value]
never_locked(semaphore) == FALSE
locked(semaphore) == semaphore.value = 0
acquire(semaphore) == [value |-> semaphore.value - 1]
release(semaphore) == [value |-> semaphore.value + 1]

RowOf(table, id) == CHOOSE row \in table : row.id = id

\* the loop of the batch endpoint over the result map, and its answer
batch_response(table, processed, results) ==
    LET updated == {b \in DOMAIN results : ~results[b].none /\ \E row \in table : row.id = b}
        failed == {b \in DOMAIN results : results[b].none}
    IN  [table |-> {IF row.id \in updated
                    THEN [row EXCEPT !.image_url = results[row.id]]
                    ELSE row : row \in table},
         response |-> [status |-> 200, processed |-> Cardinality(processed),
                       updated |-> Cardinality(updated),
                       failed |-> Cardinality(failed)]]

\* bundles_without_images: up to limit rows of the store that have no image
bundles_without_images(table, store_id, limit) ==
    LET rows == {row.id : row \in {r \in table : r.store_id = store_id /\ r.image_url.none}}
    IN  {S \in SUBSET rows : Cardinality(S) = Min(limit, Cardinality(rows))}

\* POST /bundles/generate-images/batch up to the start of the event loop
batch_begin ==
    /\ input.fn = "batch"
    /\ output.pc = "query"
    /\ \E S \in bundles_without_images(bundles, input.store_id, input.limit) :
         IF S = {}
         THEN /\ output' = [done |-> TRUE, pc |-> "done", batch |-> S,
                            results |-> << >>,
                            response |-> [status |-> 200, processed |-> 0,
                                          updated |-> 0, failed |-> 0]]
              /\ UNCHANGED <<bundles, req, calls>>
         ELSE IF input.max_concurrent < 0
         THEN LET r == batch_response(bundles, S, << >>)
              IN  /\ output' = [done |-> TRUE, pc |-> "done", batch |-> S,
                                results |-> << >>, response |-> r.response]
                  /\ bundles' = r.table
                  /\ UNCHANGED <<req, calls>>
         ELSE /\ calls' = Semaphore(input.max_concurrent)
              /\ req' = [b \in S |-> PendingTask]
              /\ output' = [done |-> FALSE, pc |-> "gather", batch |-> S,
                            results |-> << >>,
                            response |-> [status |-> 0, processed |-> 0,
                                          updated |-> 0, failed |-> 0]]
              /\ UNCHANGED bundles
    /\ UNCHANGED input

\* a task that holds the semaphore runs up to its first await
enter(b) ==
    IF RowOf(bundles, b).products = << >>
    THEN /\ req' = [req EXCEPT ![b] = [PendingTask EXCEPT !.pc = "done", !.failed = TRUE]]
         /\ UNCHANGED calls
    ELSE /\ req' = [req EXCEPT ![b].pc = "in_flight"]
         /\ calls' = acquire(calls)

\* generate_with_semaphore reaches `async with semaphore`
task_start(b) ==
    /\ output.pc = "gather"
    /\ req[b].pc = "pending"
    /\ IF locked(calls)
       THEN req' = [req EXCEPT ![b].pc = "waiting"] /\ UNCHANGED calls
       ELSE enter(b)
    /\ UNCHANGED <<bundles, input, output>>

\* a waiting task is woken once the semaphore has a free slot
task_wake(b) ==
    /\ output.pc = "gather"
    /\ req[b].pc = "waiting"
    /\ ~locked(calls)
    /\ enter(b)
    /\ UNCHANGED <<bundles, input, output>>

\* the awaited generation of a task ends; the task republishes its image,
\* returns and leaves the semaphore
task_finish(b, api, upload) ==
    /\ output.pc = "gather"
    /\ req[b].pc = "in_flight"
    /\ req' = [req EXCEPT ![b] = generate_single_bundle_image(b, api, upload)]
    /\ calls' = release(calls)
    /\ UNCHANGED <<bundles, input, output>>

\* asyncio.gather returns; the endpoint stores the URLs and answers
batch_finish ==
    /\ output.pc = "gather"
    /\ \A b \in DOMAIN req : req[b].pc = "done"
    /\ LET results == [b \in DOMAIN req |-> req[b].result]
           r == batch_response(bundles, output.batch, results)
       IN  /\ output' = [output EXCEPT !.done = TRUE, !.pc = "done",
                                       !.results = results,
                                       !.response = r.response]
           /\ bundles' = r.table
    /\ UNCHANGED <<req, calls, input>>

BatchProducts == {<< >>, <<ProductA>>}
BatchRow(id, products, image_url) ==
    [id |-> id, store_id |-> "s1", products |-> products, image_url |-> image_url]
StoredUrls == {None, Some(ImageUrl(PublicDomain, 0, "old.png"))}
BatchTables ==
    UNION {{ {BatchRow(i, ps[i], us[i]) : i \in 1..n} :
                ps \in [1..n -> BatchProducts], us \in [1..n -> StoredUrls]} :
           n \in 1..MaxBatch}

InitBatch ==
    /\ bundles \in BatchTables
    /\ input \in [fn : {"batch"}, store_id : {"s1"}, limit : {1, DefaultLimit},
                  max_concurrent : -1..MaxConcurrent]
    /\ req = << >>
    /\ calls = Semaphore(0)
    /\ output = [done |-> FALSE, pc |-> "query", batch |-> {}, results |-> << >>,
                 response |-> [status |-> 0, processed |-> 0, updated |-> 0,
                               failed |-> 0]]

NextBatch ==
    \/ batch_begin
    \/ \E b \in DOMAIN req : task_start(b)
    \/ \E b \in DOMAIN req : task_wake(b)
    \/ \E b \in DOMAIN req : \E api \in ApiResults : \E upload \in UploadOutcomes :
          task_finish(b, api, upload)
    \/ batch_finish

SpecBatch == InitBatch /\ [][NextBatch]_vars

\* the bundles whose generation failed, and those whose call is in flight
FailingSet == {b \in DOMAIN req : req[b].failed}
InFlight == {b \in DOMAIN req : req[b].pc = "in_flight"}

\* C13: when the batch endpoint has answered for a non-empty batch, the
\* result map has exactly one entry per bundle of the batch, no value for
\* the bundles whose generation failed and a URL for the others, and the
\* answer's failed count is the number of bundles whose generation failed.
C13_FailuresIsolated ==
    (output.done /\ output.batch # {}) =>
        /\ DOMAIN output.results = output.batch
        /\ \A b \in output.batch : output.results[b].none <=> b \in FailingSet
        /\ output.response.failed = Cardinality(FailingSet)

\* ---------------------------------------------------------------------
\* routers/images.py: the image proxy
\* ---------------------------------------------------------------------

MaxNameLen == 3         \* characters of a filename before its extension

EndsWith(s, suffix) ==
    /\ Len(s) >= Len(suffix)
    /\ SubSeq(s, Len(s) - Len(suffix) + 1, Len(s)) = suffix

Contains(s, part) ==
    \E i \in 1..(Len(s) - Len(part) + 1) : SubSeq(s, i, i + Len(part) - 1) = part

Png == <<".", "p", "n", "g">>

\* not filename.endswith('.png') or '/' in filename or '..' in filename
invalid_filename(filename) ==
    \/ ~EndsWith(filename, Png)
    \/ Contains(filename, <<"/">>)
    \/ Contains(filename, <<".", ".">>)

\* the exception classes the handler tells apart
RequestExceptions == {"RequestException", "HTTPError", "Timeout", "ConnectionError"}

\* the try block of serve_generated_image: the answer or the exception it
\* ends with, and the upstream requests it made
serve_generated_image_try(filename, upstream) ==
    IF invalid_filename(filename)
    THEN [exc |-> "HTTPException", status |-> 400, fetches |-> 0]
    ELSE IF upstream = "ok"
    THEN [exc |-> "", status |-> 200, fetches |-> 1]
    ELSE [exc |-> upstream, status |-> 0, fetches |-> 1]

\* the except clauses of serve_generated_image
serve_generated_image(filename, upstream) ==
    LET r == serve_generated_image_try(filename, upstream)
    IN  IF r.exc = "" THEN r
        ELSE IF r.exc \in RequestExceptions
        THEN [exc |-> "HTTPException", status |-> 404, fetches |-> r.fetches]
        ELSE [exc |-> "HTTPException", status |-> 500, fetches |-> r.fetches]

Filenames ==
    {stem \o ext : stem \in SeqsUpTo({"a", ".", "/"}, MaxNameLen),
                   ext \in {Png, <<".", "j", "p", "g">>, << >>}}

serve_eval ==
    /\ input.fn = "serve"
    /\ ~output.done
    /\ \E upstream \in {"ok", "HTTPError", "Timeout"} :
         LET r == serve_generated_image(input.filename, upstream)
         IN  /\ output' = [done |-> TRUE, status |-> r.status]
             /\ calls' = calls + r.fetches
    /\ UNCHANGED <<bundles, req, input>>

InitProxy ==
    /\ bundles = {}
    /\ req = << >>
    /\ calls = 0
    /\ input \in [fn : {"serve"}, filename : Filenames]
    /\ output = [done |-> FALSE, status |-> 0]

NextProxy == serve_eval

SpecProxy == InitProxy /\ [][NextProxy]_vars

\* C14: the proxy answers 400 to a filename that does not end in .png or
\* that contains '/' or '..' and makes no upstream request for it; for any
\* other filename it makes exactly one upstream request.
C14_InvalidFilenameRefused ==
    output.done =>
        IF invalid_filename(input.filename)
        THEN output.status = 400 /\ calls = 0
        ELSE calls = 1

\* ---------------------------------------------------------------------
\* POST /bundles/{bundle_id}/generate-image
\* ---------------------------------------------------------------------

\* update_bundle_with_image: the stored rows and whether the update was
\* committed
update_bundle_with_image(table, bundle_id, image_url, commit) ==
    IF ~\E row \in table : row.id = bundle_id
    THEN [table |-> table, ok |-> FALSE]
    ELSE IF commit = "ok"
    THEN [table |-> {IF row.id = bundle_id
                     THEN [row EXCEPT !.image_url = Some(image_url)]
                     ELSE row : row \in table},
          ok |-> TRUE]
    ELSE [table |-> table, ok |-> FALSE]

\* db.query(Bundle).filter(Bundle.id == bundle_id).first()
query_first(table, bundle_id) ==
    IF \E row \in table : row.id = bundle_id
    THEN Some(RowOf(table, bundle_id)) ELSE None

\* the try block of _async_generate_and_update: bundle is the row its query
\* found before the generation was awaited, table the rows when
\* update_bundle_with_image queries again
generate_and_update_try(bundle, table, bundle_id, api, commit) ==
    IF bundle.none
    THEN [table |-> table, result |-> Raise("ImageGenerationError", "not found")]
    ELSE IF bundle.v.products = << >>
    THEN [table |-> table,
          result |-> Raise("ImageGenerationError", "no valid products")]
    ELSE LET g == generate_bundle_image(api)
         IN  IF g.exc # "" THEN [table |-> table, result |-> g]
             ELSE LET u == update_bundle_with_image(table, bundle_id, g.value.v, commit)
                  IN  [table |-> u.table,
                       result |-> Return(IF u.ok THEN g.value ELSE None)]

\* generate_and_update_bundle_image: the image URL, or no value on any
\* exception
generate_and_update_bundle_image(bundle, table, bundle_id, api, commit) ==
    LET r == generate_and_update_try(bundle, table, bundle_id, api, commit)
    IN  IF r.result.exc # ""
        THEN [table |-> r.table, result |-> Return(None)]
        ELSE r

\* the try block of generate_image_for_bundle
generate_image_for_bundle_try(bundle, table, bundle_id, api, commit) ==
    LET r == generate_and_update_bundle_image(bundle, table, bundle_id, api, commit)
    IN  IF r.result.exc # ""
        THEN [table |-> r.table, exc |-> r.result.exc, status |-> 0, image_url |-> None]
        ELSE IF ~r.result.value.v.none
        THEN [table |-> r.table, exc |-> "", status |-> 200,
              image_url |-> r.result.value.v]
        ELSE [table |-> r.table, exc |-> "HTTPException", status |-> 500,
              image_url |-> None]

\* the except clauses of generate_image_for_bundle
generate_image_for_bundle(bundle, table, bundle_id, api, commit) ==
    LET r == generate_image_for_bundle_try(bundle, table, bundle_id, api, commit)
    IN  IF r.exc = "" THEN r
        ELSE IF r.exc = "ImageGenerationError"
        THEN [r EXCEPT !.exc = "HTTPException", !.status = 400]
        ELSE [r EXCEPT !.exc = "HTTPException", !.status = 500]

\* requests of other clients of the bundles table that run beside this one
MaxOtherWrites == 2

\* the handler up to the awaited generation: the bundle is queried
generate_image_query ==
    /\ input.fn = "generate_image"
    /\ req.pc = "idle"
    /\ req' = [req EXCEPT !.pc = "awaiting",
                          !.bundle = query_first(bundles, input.bundle_id)]
    /\ UNCHANGED <<bundles, calls, input, output>>

\* the handler once the generation is over: update_bundle_with_image queries
\* the bundle again on the rows of that moment, and the endpoint answers
generate_image_eval ==
    /\ input.fn = "generate_image"
    /\ req.pc = "awaiting"
    /\ LET r == generate_image_for_bundle(req.bundle, bundles, input.bundle_id,
                                          input.api, input.commit)
       IN  /\ output' = [done |-> TRUE, status |-> r.status, image_url |-> r.image_url]
           /\ bundles' = r.table
    /\ req' = [req EXCEPT !.pc = "done"]
    /\ UNCHANGED <<calls, input>>

\* another client deletes a row of the table
bundle_deleted(id) ==
    /\ input.fn = "generate_image"
    /\ calls < MaxOtherWrites
    /\ \E row \in bundles : row.id = id
    /\ bundles' = {row \in bundles : row.id # id}
    /\ calls' = calls + 1
    /\ UNCHANGED <<req, input, output>>

\* what generate_single_bundle_image of a batch request can return for a
\* row it selected
batch_results_of(row) ==
    IF row.products = << >> THEN {None}
    ELSE {generate_single_bundle_image(row.id, api, upload).result :
              api \in ApiResults, upload \in UploadOutcomes}

\* the result maps generate_images_for_bundles can return for the rows
batch_results(rows) ==
    {results \in [{row.id : row \in rows} ->
                      UNION {batch_results_of(row) : row \in rows}] :
        \A row \in rows : results[row.id] \in batch_results_of(row)}

\* POST /bundles/generate-images/batch of another request selects the rows
\* of the store without an image, and waits for their generation
batch_queried(limit) ==
    /\ input.fn = "generate_image"
    /\ req.other.pc = "idle"
    /\ calls < MaxOtherWrites
    /\ \E S \in bundles_without_images(bundles, "s1", limit) :
         /\ S # {}
         /\ req' = [req EXCEPT !.other = [pc |-> "awaiting",
                                          batch |-> {RowOf(bundles, b) : b \in S}]]
    /\ calls' = calls + 1
    /\ UNCHANGED <<bundles, input, output>>

\* the batch request stores the URLs of its result map in one commit, on the
\* rows of that moment
batch_committed ==
    /\ input.fn = "generate_image"
    /\ req.other.pc = "awaiting"
    /\ \E results \in batch_results(req.other.batch) :
         bundles' = batch_response(bundles, DOMAIN results, results).table
    /\ req' = [req EXCEPT !.other = [pc |-> "idle", batch |-> {}]]
    /\ UNCHANGED <<calls, input, output>>

InitSingle ==
    /\ bundles \in BatchTables
    /\ req = [pc |-> "idle", bundle |-> None,
              other |-> [pc |-> "idle", batch |-> {}]]
    /\ calls = 0
    /\ input \in [fn : {"generate_image"}, bundle_id : 1..(MaxBatch + 1),
                  api : ApiResults, commit : {"ok", "failed"}]
    /\ output = [done |-> FALSE, status |-> 0, image_url |-> None]

NextSingle ==
    \/ generate_image_query
    \/ generate_image_eval
    \/ \E id \in 1..MaxBatch : bundle_deleted(id)
    \/ \E limit \in {1, DefaultLimit} : batch_queried(limit)
    \/ batch_committed

SpecSingle == InitSingle /\ [][NextSingle]_vars

\* C15: the endpoint answers 200 with the image URL when the generation and
\* the update of the bundle succeed, 400 when the bundle is refused before
\* any generation (it does not exist or has no products), and 500 when the
\* generation gives no image or the update fails.
C15_GenerateImageStatus ==
    [][(~output.done /\ output'.done) =>
          IF req.bundle.none \/ req.bundle.v.products = << >>
          THEN output'.status = 400
          ELSE IF /\ ~input.api.none
                  /\ input.commit = "ok"
                  /\ \E row \in bundles : row.id = input.bundle_id
          THEN output'.status = 200 /\ output'.image_url = input.api
          ELSE output'.status = 500]_vars

\* ---------------------------------------------------------------------
\* services/image_generator.py: prompt truncation for CLIP
\* ---------------------------------------------------------------------

MaxWords == 7           \* words of a prompt
MaxTokens == 7          \* largest max_tokens handed to the truncation

\* str.split(): the maximal runs of characters that are no whitespace
RECURSIVE SplitFrom(_, _, _)
SplitFrom(text, i, word) ==
    IF i > Len(text)
    THEN IF word = << >> THEN << >> ELSE <<word>>
    ELSE IF text[i] = " "
    THEN (IF word = << >> THEN << >> ELSE <<word>>) \o SplitFrom(text, i + 1, << >>)
    ELSE SplitFrom(text, i + 1, Append(word, text[i]))
Split(text) == SplitFrom(text, 1, << >>)

\* str.lstrip(chars), str.rstrip(chars), str.strip(chars)
RECURSIVE LStripChars(_, _)
LStripChars(s, chars) ==
    IF s # << >> /\ Head(s) \in chars THEN LStripChars(Tail(s), chars) ELSE s
RECURSIVE RStripChars(_, _)
RStripChars(s, chars) ==
    IF s # << >> /\ s[Len(s)] \in chars
    THEN RStripChars(SubSeq(s, 1, Len(s) - 1), chars)
    ELSE s
StripChars(s, chars) == RStripChars(LStripChars(s, chars), chars)

WordPunctuation == {".", ",", ";", ":", "!", "?", "\"", "(", ")", "[", "]"}
EndPunctuation == {".", ",", ";", ":"}

\* the tokens estimate_clip_tokens counts for one word
word_tokens(word) ==
    LET clean_word == StripChars(word, WordPunctuation)
    IN  (IF Len(clean_word) <= 3 THEN 1
         ELSE IF Len(clean_word) <= 6 THEN 1
         ELSE IF Len(clean_word) <= 10 THEN 2
         ELSE 3)
        + (IF word # clean_word THEN 1 ELSE 0)

RECURSIVE SumTokens(_)
SumTokens(words) ==
    IF words = << >> THEN 0 ELSE word_tokens(Head(words)) + SumTokens(Tail(words))

estimate_clip_tokens(text) == SumTokens(Split(text))

\* while estimated_tokens > max_tokens and len(words) > 5: words.pop()
RECURSIVE pop_words(_, _, _)
pop_words(words, estimated_tokens, max_tokens) ==
    IF estimated_tokens > max_tokens /\ Len(words) > 5
    THEN LET popped == SubSeq(words, 1, Len(words) - 1)
         IN  pop_words(popped, estimate_clip_tokens(Join(<<" ">>, popped)), max_tokens)
    ELSE words

truncate_prompt_for_clip(prompt, max_tokens) ==
    LET estimated_tokens == estimate_clip_tokens(prompt)
    IN  IF estimated_tokens <= max_tokens THEN prompt
        ELSE RStripChars(Join(<<" ">>, pop_words(Split(prompt), estimated_tokens,
                                                 max_tokens)),
                         EndPunctuation) \o <<".">>

\* a short word, the same followed by a comma, and a word of seven letters
Vocabulary ==
    {<<"a">>, <<"a", ",">>, <<"a", "a", "a", "a", "a", "a", "a">>}
Prompts == {Join(<<" ">>, words) : words \in SeqsUpTo(Vocabulary, MaxWords)}

truncate_eval ==
    /\ input.fn = "truncate"
    /\ ~output.done
    /\ output' = [done |-> TRUE,
                  result |-> truncate_prompt_for_clip(input.prompt, input.max_tokens)]
    /\ UNCHANGED <<bundles, req, calls, input>>

InitClip ==
    /\ bundles = {}
    /\ req = << >>
    /\ calls = 0
    /\ input \in [fn : {"truncate"}, prompt : Prompts, max_tokens : 1..MaxTokens]
    /\ output = [done |-> FALSE, result |-> << >>]

NextClip == truncate_eval

SpecClip == InitClip /\ [][NextClip]_vars

\* C16: for a prompt estimated above max_tokens the result is estimated at
\* or under max_tokens unless no more than 5 words remain, keeps at least 5
\* words of a prompt that had as many, and ends with a full stop.
C16_TruncatedUnderLimit ==
    (output.done /\ estimate_clip_tokens(input.prompt) > input.max_tokens) =>
        LET kept == Len(Split(output.result))
        IN  /\ estimate_clip_tokens(output.result) <= input.max_tokens \/ kept <= 5
            /\ kept >= Min(5, Len(Split(input.prompt)))
            /\ output.result # << >> /\ output.result[Len(output.result)] = "."

\* ---------------------------------------------------------------------
\* services/image_generator.py: call_local_image_api_async
\* ---------------------------------------------------------------------

\* max_wait_time = 120; await asyncio.sleep(2)
max_wait_time == 120
PollSleep == 2

\* the seconds an awaited request can take
Durations == {0, 30}

\* the answers to POST /generate-image-async, GET /job/{job_id} and
\* POST /generate-image; "TimeoutException" and "RequestError" are raised by
\* the client, "malformed" is a body without the expected fields
SubmitAnswers == {"200", "503", "malformed", "TimeoutException", "RequestError"}
PollAnswers ==
    {"queued", "processing", "completed", "failed", "404",
     "TimeoutException", "RequestError"}
SyncAnswers == {"200", "500", "TimeoutException", "RequestError"}

JobImage == ImageUrl(LocalImages, 0, "a.png")
SyncImage == ImageUrl(LocalImages, 0, "b.png")

ApiCall ==
    [pc |-> "submit", now |-> 0, start_time |-> 0, submitted |-> "",
     seen |-> {}, error |-> FALSE]

\* while time.time() - start_time < max_wait_time
no_poll_window(now, start_time) == FALSE
poll_window_open(now, start_time) == now - start_time < max_wait_time

\* the head of the poll loop: poll again, or leave the loop for the fallback
loop_head(now, start_time) ==
    IF poll_window_open(now, start_time) THEN "poll" ELSE "sync"

\* any exception leaves the function with no result
api_failed(call, now) ==
    /\ req' = [call EXCEPT !.pc = "done", !.now = now, !.error = TRUE]
    /\ output' = [done |-> TRUE, result |-> None]
    /\ UNCHANGED calls

\* POST /generate-image-async returns
api_submit(answer, d) ==
    /\ input.fn = "call_api"
    /\ req.pc = "submit"
    /\ LET now == req.now + d
       IN  IF answer = "200"
           THEN /\ req' = [req EXCEPT !.pc = loop_head(now, now), !.now = now,
                                      !.start_time = now, !.submitted = "accepted"]
                /\ UNCHANGED <<calls, output>>
           ELSE IF answer = "503"
           THEN /\ req' = [req EXCEPT !.pc = "sync", !.now = now,
                                      !.submitted = "rejected"]
                /\ UNCHANGED <<calls, output>>
           ELSE api_failed([req EXCEPT !.submitted = answer], now)
    /\ UNCHANGED <<bundles, input>>

\* GET /job/{job_id} returns
api_poll(answer, d) ==
    /\ input.fn = "call_api"
    /\ req.pc = "poll"
    /\ LET now == req.now + d
           polled == [req EXCEPT !.now = now, !.seen = @ \cup {answer}]
       IN  IF answer = "completed"
           THEN /\ req' = [polled EXCEPT !.pc = "done"]
                /\ output' = [done |-> TRUE,
                              result |-> Some([image_url |-> JobImage,
                                               method |-> "async"])]
                /\ UNCHANGED calls
           ELSE IF answer = "failed"
           THEN /\ req' = [polled EXCEPT !.pc = "sync"]
                /\ UNCHANGED <<calls, output>>
           ELSE IF answer \in {"TimeoutException", "RequestError"}
           THEN api_failed(polled, now)
           ELSE /\ req' = [polled EXCEPT !.pc = "sleep"]
                /\ UNCHANGED <<calls, output>>
    /\ UNCHANGED <<bundles, input>>

\* await asyncio.sleep(2) returns and the loop condition is read again
api_sleep ==
    /\ input.fn = "call_api"
    /\ req.pc = "sleep"
    /\ LET now == req.now + PollSleep
       IN  req' = [req EXCEPT !.pc = loop_head(now, req.start_time), !.now = now]
    /\ UNCHANGED <<bundles, calls, input, output>>

\* POST /generate-image is sent and returns
api_sync(answer, d) ==
    /\ input.fn = "call_api"
    /\ req.pc = "sync"
    /\ calls' = calls + 1
    /\ req' = [req EXCEPT !.pc = "done", !.now = req.now + d,
                          !.error = answer # "200"]
    /\ output' = [done |-> TRUE,
                  result |-> IF answer = "200"
                             THEN Some([image_url |-> SyncImage,
                                        method |-> "sync_fallback"])
                             ELSE None]
    /\ UNCHANGED <<bundles, input>>

InitPoll ==
    /\ bundles = {}
    /\ req = ApiCall
    /\ calls = 0
    /\ input = [fn |-> "call_api"]
    /\ output = [done |-> FALSE, result |-> None]

NextPoll ==
    \/ \E answer \in SubmitAnswers : \E d \in Durations : api_submit(answer, d)
    \/ \E answer \in PollAnswers : \E d \in Durations : api_poll(answer, d)
    \/ api_sleep
    \/ \E answer \in SyncAnswers : \E d \in Durations : api_sync(answer, d)

SpecPoll == InitPoll /\ [][NextPoll]_vars

\* C17: the synchronous endpoint has been called only if the submission was
\* not accepted, a poll reported the job failed, or 120 seconds have passed
\* since the submission without a completed poll; after a completed poll
\* the function has returned the job's URL with method 'async' and has not
\* called the synchronous endpoint; after a timeout or request error it has
\* returned no result.
C17_SyncOnlyAsFallback ==
    /\ calls > 0 =>
          /\ "completed" \notin req.seen
          /\ \/ req.submitted = "rejected"
             \/ "failed" \in req.seen
             \/ req.now - req.start_time >= max_wait_time
    /\ "completed" \in req.seen =>
          /\ calls = 0
          /\ output.done
          /\ output.result = Some([image_url |-> JobImage, method |-> "async"])
    /\ req.error => output.done /\ output.result = None

\* the fallback ran because the poll window closed on an accepted job that
\* was never reported failed
C17_FallbackAfterWindow ==
    /\ output.done
    /\ calls = 1
    /\ req.submitted = "accepted"
    /\ "failed" \notin req.seen
    /\ ~output.result.none
    /\ output.result.v.method = "sync_fallback"

\* C18: whenever a generate_bundle_image call of the batch is in flight,
\* the calls in flight are at most max_concurrent.
C18_BoundedConcurrency ==
    InFlight # {} => Cardinality(InFlight) <= input.max_concurrent

\* max_concurrent calls are in flight while another task waits for a slot
C18_LimitReached ==
    /\ Cardinality(InFlight) = input.max_concurrent
    /\ input.max_concurrent >= 2
    /\ \E b \in DOMAIN req : req[b].pc = "waiting"

\* C19: in the result map of a finished batch, a bundle whose generation
\* returned a URL on the local or tunneled host has the published URL of
\* its file when the upload succeeded and the proxy path of its file when
\* the upload failed or raised, and never the generated URL.
C19_LocalUrlReplaced ==
    output.done =>
        \A b \in DOMAIN output.results :
            (~req[b].generated.none /\
             req[b].generated.v.base \in {LocalImages, TunnelImages}) =>
                LET local == req[b].generated.v
                    url == output.results[b]
                IN  /\ url # Some(local)
                    /\ url = IF req[b].upload = "published"
                             THEN Some(ImageUrl(PublicDomain, b, local.filename))
                             ELSE Some(ImageUrl(ProxyImages, 0, local.filename))

\* a finished batch with one image published and another left to the proxy
\* after its upload failed
C19_PublishedAndProxied ==
    /\ output.done
    /\ \E b \in DOMAIN output.results :
          /\ req[b].upload = "published"
          /\ ~output.results[b].none
          /\ output.results[b].v.base = PublicDomain
    /\ \E b \in DOMAIN output.results :
          /\ req[b].upload \in {"failed", "raised"}
          /\ ~output.results[b].none
          /\ output.results[b].v.base = ProxyImages

\* ---------------------------------------------------------------------
\* the diffusion microservice: local_image_server_async.py,
\* local_image_server_gpu_optimized.py, local_image_server_mock_async.py
\* ---------------------------------------------------------------------

MaxJobs == 3            \* jobs submitted to the microservice

Variants == {"async", "gpu", "mock"}

\* active_jobs[job_id] = {"status": "queued", ...}
QueuedJob == [status |-> "queued", image_url |-> None, error |-> None]

\* a background task runs without a suspension point from its start to its
\* end in the async and GPU variants; the mock variant awaits a sleep while
\* the job is processing
loop_busy ==
    \E j \in DOMAIN req.tasks :
        \/ req.tasks[j] = "saved"
        \/ req.tasks[j] = "running" /\ input.variant # "mock"

\* an exception reaches the except clause of the background task: the job
\* record is updated, which raises KeyError when the job is gone
job_failed(j, error) ==
    req' = [jobs |-> IF j \in DOMAIN req.jobs
                     THEN [req.jobs EXCEPT ![j].status = "failed",
                                           ![j].error = Some(error)]
                     ELSE req.jobs,
            tasks |-> [req.tasks EXCEPT ![j] = "done"]]

\* local_image_server_gpu_optimized.py lines 212-222: the clause for
\* torch.cuda.OutOfMemoryError calls torch.cuda.empty_cache() on a CUDA device
\* before it updates the job record; when that call raises, the exception
\* leaves the task and the record stays as it is
job_out_of_memory(j, cache) ==
    IF input.device = "cuda" /\ cache # "ok"
    THEN req' = [req EXCEPT !.tasks[j] = "done"]
    ELSE job_failed(j, "GPU out of memory")

\* POST /generate-image-async
generate_image_async_endpoint ==
    /\ input.fn = "server"
    /\ ~loop_busy
    /\ calls < MaxJobs
    /\ calls' = calls + 1
    /\ req' = [jobs |-> [j \in DOMAIN req.jobs \cup {calls + 1} |->
                            IF j = calls + 1 THEN QueuedJob ELSE req.jobs[j]],
               tasks |-> [j \in DOMAIN req.tasks \cup {calls + 1} |->
                            IF j = calls + 1 THEN "queued" ELSE req.tasks[j]]]
    /\ UNCHANGED <<bundles, input, output>>

\* the background task starts: active_jobs[job_id]["status"] = "processing"
job_start(j) ==
    /\ input.fn = "server"
    /\ ~loop_busy
    /\ req.tasks[j] = "queued"
    /\ IF j \in DOMAIN req.jobs
       THEN req' = [jobs |-> [req.jobs EXCEPT ![j].status = "processing"],
                    tasks |-> [req.tasks EXCEPT ![j] = "running"]]
       ELSE job_failed(j, "KeyError")
    /\ UNCHANGED <<bundles, calls, input, output>>

\* the pipeline returns or raises; a returned image is saved and the job
\* record updated to completed.  cache is what torch.cuda.empty_cache() does
\* in the out-of-memory clause of the GPU variant.
job_generate(j, outcome, cache) ==
    /\ input.fn = "server"
    /\ req.tasks[j] = "running"
    /\ \A k \in DOMAIN req.tasks : req.tasks[k] # "saved"
    /\ outcome # "OutOfMemoryError" => cache = "ok"
    /\ IF outcome = "OutOfMemoryError" /\ input.variant = "gpu"
       THEN job_out_of_memory(j, cache)
       ELSE IF outcome = "image" /\ j \in DOMAIN req.jobs
       THEN req' = [jobs |-> [req.jobs EXCEPT
                                 ![j].status = "completed",
                                 ![j].image_url =
                                     Some(ImageUrl(LocalImages, 0, "a.png"))],
                    tasks |-> [req.tasks EXCEPT ![j] = "saved"]]
       ELSE job_failed(j, IF outcome = "image" THEN "KeyError" ELSE outcome)
    /\ UNCHANGED <<bundles, calls, input, output>>

\* the statements of the try block that follow the update to completed:
\* torch.cuda.empty_cache() in the GPU variant on a CUDA device, then the
\* log line
job_finish(j, outcome) ==
    /\ input.fn = "server"
    /\ req.tasks[j] = "saved"
    /\ IF input.variant = "gpu" /\ input.device = "cuda" /\ outcome # "ok"
       THEN job_failed(j, outcome)
       ELSE req' = [req EXCEPT !.tasks[j] = "done"]
    /\ UNCHANGED <<bundles, calls, input, output>>

\* DELETE /cleanup: the jobs created more than an hour ago are deleted
cleanup(old) ==
    /\ input.fn = "server"
    /\ ~loop_busy
    /\ old # {}
    /\ req' = [req EXCEPT !.jobs = [j \in DOMAIN req.jobs \ old |-> req.jobs[j]]]
    /\ UNCHANGED <<bundles, calls, input, output>>

InitJobs ==
    /\ bundles = {}
    /\ req = [jobs |-> << >>, tasks |-> << >>]
    /\ calls = 0
    /\ input \in [fn : {"server"}, variant : Variants, device : {"cuda", "cpu"}]
    /\ output = [done |-> FALSE]

NextJobs ==
    \/ generate_image_async_endpoint
    \/ \E j \in DOMAIN req.tasks : job_start(j)
    \/ \E j \in DOMAIN req.tasks :
          \E outcome \in {"image", "RuntimeError", "OutOfMemoryError"} :
             \E cache \in {"ok", "RuntimeError"} : job_generate(j, outcome, cache)
    \/ \E j \in DOMAIN req.tasks : \E outcome \in {"ok", "RuntimeError"} :
          job_finish(j, outcome)
    \/ \E old \in SUBSET DOMAIN req.jobs : cleanup(old)

SpecJobs == InitJobs /\ [][NextJobs]_vars

JobSteps ==
    {<<"queued", "processing">>, <<"processing", "completed">>,
     <<"processing", "failed">>}

\* C20: a job enters the job table as queued; the status of a job changes
\* only from queued to processing and from processing to completed or to
\* failed; a completed job carries an image URL and a failed job an error.
C20_JobLifecycle ==
    [][\A j \in DOMAIN req'.jobs :
          /\ j \notin DOMAIN req.jobs => req'.jobs[j].status = "queued"
          /\ j \in DOMAIN req.jobs =>
                \/ req'.jobs[j].status = req.jobs[j].status
                \/ <<req.jobs[j].status, req'.jobs[j].status>> \in JobSteps
          /\ req'.jobs[j].status = "completed" => ~req'.jobs[j].image_url.none
          /\ req'.jobs[j].status = "failed" => ~req'.jobs[j].error.none]_vars

\* ---------------------------------------------------------------------
\* generate_bundles_for_store on answers that name unknown and sold-out
\* products
\* ---------------------------------------------------------------------

MaxGenCatalog == 2      \* rows of the inventory read by generate_bundles_for_store
MaxGenIds == 3          \* product ids of one bundle definition

\* the ids of the catalog and one id no catalog holds
GenIds == {CatalogId(i) : i \in 1..(MaxGenCatalog + 1)}

GenCatalogs ==
    UNION {{c \in [1..k -> UNION {AICatalogRows(i) : i \in 1..k}] :
               \A i \in 1..k : c[i].id = CatalogId(i)} : k \in 0..MaxGenCatalog}

\* answers of the first provider: one definition over GenIds, or up to
\* MaxDefs definitions naming the first two products
GenResponses ==
    {Response("ok", None, None, <<[isdict |-> TRUE, product_ids |-> ids]>>) :
        ids \in SeqsUpTo(GenIds, MaxGenIds)}
      \cup BundlingResponses

\* The table starts empty: the bundle of the first two products is committed
\* by the other request, before the first query or between two queries.
InitGen ==
    /\ bundles = {}
    /\ req = StartedRequest
    /\ calls = 0
    /\ input \in {[fn |-> "generate", store_id |-> "s1", num_bundles |-> n,
                   products_raw |-> c,
                   responses |-> <<r, Response("unconfigured", None, None, <<>>)>>] :
                     n \in 0..MaxNumBundles, c \in GenCatalogs, r \in GenResponses}
    /\ output = [done |-> FALSE]

NextGen ==
    \/ generate_begin
    \/ generate_definition
    \/ generate_pair
    \/ generate_pair_append
    \/ other_save
    \/ generate_eval

SpecGen == InitGen /\ [][NextGen]_vars

\* the rows of the catalog that can go into a bundle
InStock(products_raw) ==
    {products_raw[i].id : i \in {k \in 1..Len(products_raw) : products_raw[k].stock > 0}}

\* C21: every candidate generate_bundles_for_store returns has at least 2
\* products, each one a row of the fetched catalog with stock above 0.
C21_CandidatesFromStock ==
    (output.done /\ input.fn = "generate" /\ output.result.exc = "") =>
        \A k \in 1..Len(output.result.value.v) :
            LET products == output.result.value.v[k].products
            IN  /\ Len(products) >= 2
                /\ \A i \in 1..Len(products) :
                      /\ products[i].id \in InStock(input.products_raw)
                      /\ products[i].stock > 0

\* a candidate was built from a definition that also named a product the
\* catalog does not hold or holds with no stock
C21_UnusableIdDropped ==
    /\ output.done
    /\ input.fn = "generate"
    /\ output.result.exc = ""
    /\ Len(input.responses[1].bundles) = 1
    /\ input.responses[1].bundles[1].isdict
    /\ \E i \in 1..Len(input.responses[1].bundles[1].product_ids) :
          input.responses[1].bundles[1].product_ids[i] \notin InStock(input.products_raw)
    /\ \E k \in 1..Len(output.result.value.v) : output.result.value.v[k].name = "AI"

(***************************************************************************)
(* repositories/bundles.py: one create_bundle call on a caller's payload    *)
(***************************************************************************)
MaxStock == 2

\* a product priced 1e30, as a JSON payload may carry it
ProductHuge == [id |-> <<"b", "b">>, stock |-> 3, price |-> 1, exp10 |-> 32]

\* The product lists of the payloads.  The priced product of 1e30 comes with a
\* second product: alone it has no discount to compute.
CreateProducts ==
    SeqsUpTo(PayloadProducts, MaxProducts)
    \cup {<<p, ProductHuge>> : p \in PayloadProducts \cup {ProductHuge}}
    \cup {<<ProductHuge, p>> : p \in PayloadProducts}

\* BundleCreate: stock is a field of the payload, any integer the caller sends
CreatePayloads ==
    {[store_id |-> s, products |-> ps, stock |-> k] :
        s \in Stores, ps \in CreateProducts, k \in 0..MaxStock}

\* create_bundle up to the INSERT, tabulated for the payloads of the model
create_bundle_prepared == [data \in CreatePayloads |-> create_bundle_build(data)]

\* Lines 16-86: create_bundle(db, data) on the committed rows; built is the
\* outcome of lines 23-71.
create_bundle(table, data, built) ==
    IF built.outcome.exc = ""
    THEN create_bundle_commit(table,
             [IdleRequest EXCEPT !.data = Some(data), !.bundle = built.bundle,
                                 !.outcome = built.outcome])
    ELSE [table |-> table,
          r |-> [IdleRequest EXCEPT !.data = Some(data), !.outcome = built.outcome]]

create_eval ==
    /\ input.fn = "create"
    /\ ~output.done
    /\ bundles' = create_bundle(bundles, input.data,
                                create_bundle_prepared[input.data]).table
    /\ output' = [done |-> TRUE, before |-> bundles,
                  outcome |-> create_bundle(bundles, input.data,
                                  create_bundle_prepared[input.data]).r.outcome]
    /\ UNCHANGED <<req, calls, input>>

InitCreate ==
    /\ bundles \in {{}, {SavedPair}}
    /\ req = [h \in Handlers |-> IdleRequest]
    /\ calls = 0
    /\ input \in {[fn |-> "create", data |-> d] : d \in CreatePayloads}
    /\ output = [done |-> FALSE]

NextCreate == create_eval

SpecCreate == InitCreate /\ [][NextCreate]_vars

\* the least stock among the product snapshots of a row
RECURSIVE MinSnapshotStock(_, _)
MinSnapshotStock(snapshots, i) ==
    IF i > Len(snapshots) THEN 0
    ELSE IF i = Len(snapshots) THEN snapshots[i].d.stock
    ELSE Min(snapshots[i].d.stock, MinSnapshotStock(snapshots, i + 1))

\* C22: every persisted bundle's stock is the minimum stock over its product
\* snapshots, also when the bundle was created from a caller's payload.
C22_StockIsMinimum ==
    \A row \in bundles : row.stock = MinSnapshotStock(row.products, 1)

\* the signature computation of create_bundle raises on this payload
signature_fails(data) ==
    compute_bundle_signature(products_data_of(data)).exc = "ValueError"

\* the pricing computation of create_bundle raises on this payload
pricing_fails(data) ==
    /\ data.products # <<>>
    /\ pricing_raises(calculate_total_price(data.products),
                      calculate_bundle_discount_percentage(data.products))

\* C23: when the signature or the pricing computation fails during
\* create_bundle, the persisted bundles after the call are those before it.
C23_FailureWritesNothing ==
    (output.done /\ input.fn = "create"
     /\ (signature_fails(input.data) \/ pricing_fails(input.data)))
        => bundles = output.before

(***************************************************************************)
(* Candidates of one response                                               *)
(***************************************************************************)
\* the set of product ids of a candidate
IdSetOf(candidate) == {candidate.products[i].id : i \in 1..Len(candidate.products)}

\* C24: within one response of generate_bundles_for_store no two candidates
\* have the same set of product ids.
C24_DistinctCandidates ==
    (output.done /\ input.fn = "generate" /\ output.result.exc = "") =>
        \A j, k \in 1..Len(output.result.value.v) :
            j # k => IdSetOf(output.result.value.v[j]) # IdSetOf(output.result.value.v[k])

(***************************************************************************)
(* generate_images_for_bundles to its end: asyncio.run returns when gather  *)
(* has every task's result.  The event loop runs every task that is ready,  *)
(* and each generation call returns, so a step that can be taken is taken.  *)
(***************************************************************************)
SpecBatchLive == InitBatch /\ [][NextBatch]_vars /\ WF_vars(NextBatch)

\* C25: generate_images_for_bundles terminates for every max_concurrent the
\* batch endpoint accepts, 0 and negative values included: the endpoint
\* produces its response.
C25_BatchAnswers == <>output.done

\* C26: in a successful answer of the batch endpoint that processed at least
\* one bundle, processed is updated plus failed, and updated is the number of
\* selected bundles whose image_url the request has set.
C26_CountsAddUp ==
    (output.done /\ output.response.status = 200 /\ output.response.processed >= 1) =>
        /\ output.response.processed
               = output.response.updated + output.response.failed
        /\ output.response.updated
               = Cardinality({row \in bundles :
                                 row.id \in output.batch /\ ~row.image_url.none})

\* C27: no persisted bundle has an image_url on the local or the tunneled
\* diffusion host; a persisted URL is a published URL or the proxy path.
C27_NoLocalUrlPersisted ==
    \A row \in bundles : ~row.image_url.none => ~is_local_url(row.image_url.v)

\* C28: no step of the microservice removes a job that is queued or
\* processing from the job table, so the record a background task updates is
\* there.
C28_CleanupSparesActiveJobs ==
    [][\A j \in DOMAIN req.jobs :
          req.jobs[j].status \in {"queued", "processing"} => j \in DOMAIN req'.jobs]_vars

(***************************************************************************)
(* repositories/bundles.py: the existence check against the create path     *)
(***************************************************************************)
MaxIds == 2

\* product id strings: plain ones and a whitespace-only one
IdStrings == {<<"a">>, <<"b">>, <<" ">>}
IdLists == SeqsUpTo(IdStrings, MaxIds)

\* a BundleCreate for store s1 whose products carry these ids
PayloadOfIds(ids) ==
    [store_id |-> "s1", stock |-> 1,
     products |-> [i \in 1..Len(ids) |-> [id |-> ids[i], stock |-> 1, price |-> 1]]]

\* create_bundle up to the INSERT, tabulated for the id lists of the model
create_bundle_of_ids == [ids \in IdLists |-> create_bundle_build(PayloadOfIds(ids))]

\* the tables create_bundle leaves when called on an empty table
TablesOfIds ==
    {create_bundle({}, PayloadOfIds(ids), create_bundle_of_ids[ids]).table :
        ids \in IdLists}

\* bundle_exists_for_products(db, 's1', ids), and create_bundle for the same
\* ids on the same table
exists_eval ==
    /\ input.fn = "exists"
    /\ ~output.done
    /\ output' = [done |-> TRUE,
                  exists |-> bundle_exists_for_products(bundles, "s1", input.ids),
                  created |-> create_bundle(bundles, PayloadOfIds(input.ids),
                                            create_bundle_of_ids[input.ids]).r.outcome]
    /\ UNCHANGED <<bundles, req, calls, input>>

InitExists ==
    /\ bundles \in TablesOfIds
    /\ req = [h \in Handlers |-> IdleRequest]
    /\ calls = 0
    /\ input \in [fn : {"exists"}, ids : IdLists]
    /\ output = [done |-> FALSE]

NextExists == exists_eval

SpecExists == InitExists /\ [][NextExists]_vars

\* C29: bundle_exists_for_products(S, ids) is true exactly when create_bundle
\* for S with products carrying those ids is rejected as a duplicate, also
\* for lists with blank, whitespace-only or repeated ids.
C29_ExistsIffDuplicate ==
    (output.done /\ input.fn = "exists") =>
        (output.exists <=> IsConflict(output.created))

(***************************************************************************)
(* routers/bundles.py: POST /bundles/recommend/ai/save and                  *)
(* POST /bundles/recommend/ai/save-with-images.  Both run                   *)
(* generate_bundles_for_store, then create_bundle once per candidate, each  *)
(* with its own commit; the second goes on to the images only after every   *)
(* candidate was saved.                                                     *)
(***************************************************************************)
SaveFns == {"ai_save", "ai_save_images"}

\* the response of a save endpoint
save_response(status, r, create_failed) ==
    [done |-> TRUE, status |-> status, saved |-> Len(r.saved),
     create_failed |-> create_failed]

\* Lines 37-38 and 224-226: c is what create_bundle did for the candidate.
\* Its exception leaves the loop and the endpoint.
save_candidate_created(c) ==
    /\ bundles' = c.table
    /\ IF c.r.outcome.exc # ""
       THEN /\ output' = save_response(save_bundle_status(c.r.outcome), req,
                             IsConflict(c.r.outcome) \/ IsInvalidInput(c.r.outcome))
            /\ req' = [req EXCEPT !.pc = "done"]
       ELSE /\ req' = [req EXCEPT !.saved = Append(@, c.r.outcome.value.v.id)]
            /\ UNCHANGED output

\* one pass of `for c in candidates: saved = create_bundle(db, c)`
save_candidate ==
    /\ input.fn \in SaveFns
    /\ req.pc = "return"
    /\ Len(req.saved) < Len(req.results)
    /\ save_candidate_created(
           create_bundle(bundles, req.results[Len(req.saved) + 1],
                         create_bundle_build(req.results[Len(req.saved) + 1])))
    /\ UNCHANGED <<calls, input>>

\* POST /bundles/recommend/ai/save answers: 500 when
\* generate_bundles_for_store raised, the saved bundles after the loop
recommend_ai_and_save_eval ==
    /\ input.fn = "ai_save"
    /\ \/ req.pc = "raised"
       \/ req.pc = "return" /\ Len(req.saved) = Len(req.results)
    /\ output' = save_response(IF req.pc = "raised" THEN 500 ELSE 200, req, FALSE)
    /\ req' = [req EXCEPT !.pc = "done"]
    /\ UNCHANGED <<bundles, calls, input>>

\* Lines 229-230: generate_images_for_bundles(saved_bundles, max_concurrent=3),
\* one generate_single_bundle_image per saved bundle
save_images_generated ==
    /\ input.fn = "ai_save_images"
    /\ req.pc = "return"
    /\ req.results # <<>>
    /\ Len(req.saved) = Len(req.results)
    /\ \E api \in [SeqRange(req.saved) -> ApiResults] :
         \E upload \in [SeqRange(req.saved) -> UploadOutcomes] :
           req' = [req EXCEPT !.pc = "images",
                              !.image_results =
                                  [b \in SeqRange(req.saved) |->
                                     generate_single_bundle_image(b, api[b], upload[b]).result]]
    /\ UNCHANGED <<bundles, calls, input, output>>

\* Lines 233-236: bundle.image_url = image_results[bundle.id] where there is
\* a result, and one commit
saved_images_commit(table, saved, image_results) ==
    {IF row.id \in saved /\ row.id \in DOMAIN image_results
        /\ ~image_results[row.id].none
     THEN [row EXCEPT !.image_url = image_results[row.id]]
     ELSE row : row \in table}

\* POST /bundles/recommend/ai/save-with-images answers: 500 when
\* generate_bundles_for_store raised, [] without candidates, the saved
\* bundles after the commit of their images
recommend_ai_save_and_generate_images_eval ==
    /\ input.fn = "ai_save_images"
    /\ \/ req.pc = "raised"
       \/ req.pc = "return" /\ req.results = <<>>
       \/ req.pc = "images"
    /\ bundles' = IF req.pc = "images"
                  THEN saved_images_commit(bundles, SeqRange(req.saved),
                                           req.image_results)
                  ELSE bundles
    /\ output' = save_response(IF req.pc = "raised" THEN 500 ELSE 200, req, FALSE)
    /\ req' = [req EXCEPT !.pc = "done"]
    /\ UNCHANGED <<calls, input>>

InitSaveAll ==
    /\ bundles = {}
    /\ req = StartedRequest
    /\ calls = 0
    /\ input \in {[fn |-> f, store_id |-> "s1", num_bundles |-> n,
                   products_raw |-> c,
                   responses |-> <<r, Response("unconfigured", None, None, <<>>)>>] :
                     f \in SaveFns, n \in 0..MaxNumBundles, c \in GenCatalogs,
                     r \in GenResponses}
    /\ output = [done |-> FALSE, status |-> 0, saved |-> 0, create_failed |-> FALSE]

NextSaveAll ==
    \/ generate_begin
    \/ generate_definition
    \/ generate_pair
    \/ generate_pair_append
    \/ other_save
    \/ save_candidate
    \/ recommend_ai_and_save_eval
    \/ save_images_generated
    \/ recommend_ai_save_and_generate_images_eval

SpecSaveAll == InitSaveAll /\ [][NextSaveAll]_vars

\* C30: when create_bundle fails for a candidate of a request to
\* POST /bundles/recommend/ai/save or /save-with-images, no bundle created
\* earlier in the request remains persisted.
C30_AllOrNothing ==
    (output.done /\ input.fn \in SaveFns /\ output.create_failed) =>
        \A k \in 1..Len(req.saved) : ~\E row \in bundles : row.id = req.saved[k]
====
